---- MODULE Spec2Model ----
(***************************************************************************)
(* A model of cachefunk: the Cache / CacheWithContext orchestration engine *)
(* (CacheFunk.Get, CacheFunk.Set, Cleanup, Clear), the expiry policy of    *)
(* KeyConfig, the body codec and compression pipeline, and InMemoryStorage.*)
(*                                                                         *)
(* Strings that are concatenated or prefix-tested by the code (cache keys, *)
(* rendered params, full keys) are sequences of one-token strings.         *)
(* Instants are whole seconds since MinDate; the date range is scaled.     *)
(***************************************************************************)
EXTENDS Integers, Sequences, FiniteSets, TLC

VARIABLES
    config,        \* CacheFunk.Config: Defaults, Configs, and whether Configs is nil
    ignoreCtxKey,  \* CacheFunk.IgnoreCtxKey
    store,         \* InMemoryStorage.Store: full key -> entry
    now,           \* time.Now()
    call,          \* per caller: the position and locals of its wrapped call
    written,       \* history: full key -> what the last engine Set stored there
    ops,           \* history: how many calls, config changes, raw Sets and clock
                   \* jumps happened
    mode,          \* "seq": one caller, the embedder acts between calls;
                   \* "conc": callers and the embedder interleave
    backend,       \* which CacheStorage the store is: "memory" or "disk"
    io             \* the last direct call of a CacheFunk, KeyConfig or CacheStorage
                   \* method: its name, arguments and result

vars == <<config, ignoreCtxKey, store, now, call, written, ops, mode, backend, io>>

----------------------------------------------------------------------------
(* Bounds of the exploration *)

NowStart == 10
MaxNow == 12
MaxCalls == 2
MaxCfgChanges == 1
MaxRawSets == 1
MaxAdvances == 2
MaxStorageSets == 2
MaxPairCalls == 3
MaxTwinCalls == 3
MaxRaceCalls == 2
MaxConcCalls == 2
MaxSweepCalls == 2
MaxSweepSets == 3
MaxValueCalls == 2

----------------------------------------------------------------------------
(* config.go: special TTL values and the date range (scaled seconds) *)

TTLEntryNeverExpires == -1
TTLEntryImmediatelyExpires == 0
MinDate == 0
MaxDate == 100000
\* time.Duration is an int64 of nanoseconds: Time.Sub saturates at this many seconds
MaxDurationSec == 50000
\* int64(MaxDate.Sub(MinDate) / time.Second), with the saturation of Time.Sub
TTLMax ==
    IF MaxDate - MinDate > MaxDurationSec THEN MaxDurationSec ELSE MaxDate - MinDate

DefaultBodyCodec == "json"
DefaultBodyCompression == "zstd"
DefaultParamCodec == "json"

Nil == "nil"

DefaultKeyConfig ==
    [TTL |-> 3600, TTLJitter |-> 300, FallbackToExpired |-> FALSE,
     BodyCompression |-> DefaultBodyCompression, BodyCodec |-> DefaultBodyCodec,
     ParamCodec |-> DefaultParamCodec]

GetBodyCompression(kc) ==
    IF kc.BodyCompression # Nil THEN kc.BodyCompression ELSE DefaultBodyCompression

GetBodyCodec(kc) ==
    IF kc.BodyCodec # Nil THEN kc.BodyCodec ELSE DefaultBodyCodec

GetParamCodec(kc) ==
    IF kc.ParamCodec # Nil THEN kc.ParamCodec ELSE DefaultParamCodec

\* a lookup that prefers Defaults to the mapped KeyConfig
ConfigGet_DefaultsFirst(c, key) ==
    IF Len(c.Defaults) > 0 THEN c.Defaults[1]
    ELSE IF (~c.ConfigsNil) /\ key \in DOMAIN c.Configs THEN c.Configs[key]
    ELSE DefaultKeyConfig

\* Config.Get: the mapped KeyConfig, else Defaults, else DefaultKeyConfig
ConfigGet(c, key) ==
    IF (~c.ConfigsNil) /\ key \in DOMAIN c.Configs THEN c.Configs[key]
    ELSE IF Len(c.Defaults) > 0 THEN c.Defaults[1]
    ELSE DefaultKeyConfig

\* Config.Get allocates the Configs map when it is nil
ConfigAfterGet(c) == [c EXCEPT !.ConfigsNil = FALSE]

\* Time.Sub: the difference as a Duration, saturated, then divided by time.Second
SubSeconds(t, u) ==
    IF t - u > MaxDurationSec THEN MaxDurationSec
    ELSE IF t - u < -(MaxDurationSec + 1) THEN -(MaxDurationSec + 1)
    ELSE t - u

\* time.Duration(n) * time.Second: the product wraps around in the Duration's
\* integer, whose range is -(MaxDurationSec + 1) .. MaxDurationSec seconds
WrapDuration(n) ==
    ((n + MaxDurationSec + 1) % (2 * (MaxDurationSec + 1))) - (MaxDurationSec + 1)

\* a cutoff of "now" for ttl == 0 instead of the far future
GetExpireTime_ZeroIsNow(kc, t) ==
    IF kc.TTL = TTLEntryImmediatelyExpires THEN t
    ELSE IF kc.TTL <= TTLEntryNeverExpires \/ kc.TTL > TTLMax THEN MinDate
    ELSE IF SubSeconds(t, MinDate) <= kc.TTL THEN MinDate
    ELSE t + WrapDuration(-1 * kc.TTL)

\* a cutoff of now - ttl also when that lies before MinDate
GetExpireTime_NoClamp(kc, t) ==
    IF kc.TTL = TTLEntryImmediatelyExpires THEN MaxDate
    ELSE IF kc.TTL <= TTLEntryNeverExpires \/ kc.TTL > TTLMax THEN MinDate
    ELSE t + WrapDuration(-1 * kc.TTL)

\* a cutoff computed for every positive ttl, however large
GetExpireTime_Unbounded(kc, t) ==
    IF kc.TTL = TTLEntryImmediatelyExpires THEN MaxDate
    ELSE IF kc.TTL <= TTLEntryNeverExpires THEN MinDate
    ELSE t + WrapDuration(-1 * kc.TTL)

\* the two far dates the other way round
GetExpireTime_DatesSwapped(kc, t) ==
    IF kc.TTL = TTLEntryImmediatelyExpires THEN MinDate
    ELSE IF kc.TTL <= TTLEntryNeverExpires \/ kc.TTL > TTLMax THEN MaxDate
    ELSE IF SubSeconds(t, MinDate) <= kc.TTL THEN MinDate
    ELSE t + WrapDuration(-1 * kc.TTL)

GetExpireTime(kc, t) ==
    IF kc.TTL = TTLEntryImmediatelyExpires THEN MaxDate
    ELSE IF kc.TTL <= TTLEntryNeverExpires \/ kc.TTL > TTLMax THEN MinDate
    ELSE IF SubSeconds(t, MinDate) <= kc.TTL THEN MinDate
    ELSE t + WrapDuration(-1 * kc.TTL)

\* a delay drawn from [0, TTLJitter] instead of [0, TTLJitter)
JitterDelays_Inclusive(kc) ==
    IF kc.TTLJitter > 0 THEN 0 .. kc.TTLJitter ELSE {0}

\* rand.Int64N(kc.TTLJitter): every delay in [0, TTLJitter)
JitterDelays(kc) ==
    IF kc.TTLJitter > 0 THEN 0 .. (kc.TTLJitter - 1) ELSE {0}

\* now.Add(time.Duration(delay) * time.Second) for the delay drawn
GetTimestamp(kc, t, delay) ==
    IF kc.TTLJitter > 0 THEN t + WrapDuration(delay) ELSE t

----------------------------------------------------------------------------
(* Values, params, codecs and compression *)

Zero == "zero"
Func == "func"          \* a value no codec can marshal (a func, a channel)
Garbage == "garbage"    \* what StringCodec yields from bytes it did not write
Partial == "partial"    \* a target left half-written by a failed Unmarshal
\* a struct whose only non-zero field is unexported: encoding/json and msgpack
\* leave the field out and write the struct as they write its zero value
Private == "private"

GoodValues == {"v1", "v2"}

BadParams == "bad"      \* params holding a func member
GoodParams == {"p1", "p2"}
AllParams == GoodParams \cup {BadParams}
\* the params the sequential specification calls with
CallParams == {"p1", BadParams}

Ok(v) == [ok |-> TRUE, v |-> v]
Fail(e) == [ok |-> FALSE, v |-> e]

\* a ParamCodec that renders what it cannot marshal instead of failing
ParamMarshal_NeverFails(codec, p) ==
    IF codec = "json" THEN Ok(<<p>>) ELSE Ok(<<"b64", p>>)

\* jsonParams.Marshal / jsonBase64Params.Marshal: the rendered string
ParamMarshal(codec, p) ==
    IF p = BadParams THEN Fail("marshal")
    ELSE IF codec = "json" THEN Ok(<<p>>)
    ELSE Ok(<<"b64", p>>)

\* byte strings: val marshalled by codec, then wrapped by compression z
\* ("" when no compression layer is present)
Bytes(z, codec, v) == [z |-> z, codec |-> codec, val |-> v]

\* a BodyCodec that emits bytes for a value it cannot marshal
BodyMarshal_NeverFails(codec, v) == Ok(Bytes("", codec, v))

\* jsonCodec / msgpackCodec / stringCodec Marshal
BodyMarshal(codec, v) ==
    IF v = Func THEN Fail("marshal")
    ELSE IF v = Private
    THEN IF codec = "string" THEN Fail("marshal") ELSE Ok(Bytes("", codec, Zero))
    ELSE Ok(Bytes("", codec, v))

\* Unmarshal: json and msgpack reject bytes they did not write; the string
\* codec copies whatever bytes it is given
BodyUnmarshal(codec, b) ==
    IF b.z = "" /\ b.codec = codec THEN Ok(b.val)
    ELSE IF codec = "string" THEN Ok(Garbage)
    ELSE Fail("unmarshal")

\* Compress: noCompression returns its input, the others wrap it
Compress(c, b) ==
    IF c = "none" THEN Ok(b) ELSE Ok([b EXCEPT !.z = c])

\* Decompress: noCompression returns its input, the others need their own format
Decompress(c, b) ==
    IF c = "none" THEN Ok(b)
    ELSE IF b.z = c THEN Ok([b EXCEPT !.z = ""])
    ELSE Fail("decompress")

----------------------------------------------------------------------------
(* InMemoryStorage *)

\* a full key that leaves the params out
FullKey_KeyOnly(key, params) == key \o <<":">>

\* fullKey := key + ":" + params
FullKey(key, params) == key \o <<":">> \o params

HasPrefix(s, prefix) ==
    Len(s) >= Len(prefix) /\ SubSeq(s, 1, Len(prefix)) = prefix

\* Get that reports an entry as expired when its timestamp equals the cutoff
StorageGet_ExpiredOnEqual(st, key, kc, params, expireTime) ==
    LET fullKey == FullKey(key, params) IN
    IF fullKey \notin DOMAIN st THEN Fail("ErrEntryNotFound")
    ELSE IF st[fullKey].CompressionType # GetBodyCompression(kc) THEN Fail("ErrEntryNotFound")
    ELSE IF expireTime >= st[fullKey].Timestamp THEN Fail("ErrEntryExpired")
    ELSE Ok(st[fullKey].Data)

\* Get that does not compare the compression tag
StorageGet_IgnoresTag(st, key, kc, params, expireTime) ==
    LET fullKey == FullKey(key, params) IN
    IF fullKey \notin DOMAIN st THEN Fail("ErrEntryNotFound")
    ELSE IF expireTime > st[fullKey].Timestamp THEN Fail("ErrEntryExpired")
    ELSE Ok(st[fullKey].Data)

\* InMemoryStorage.Get
StorageGet(st, key, kc, params, expireTime) ==
    LET fullKey == FullKey(key, params) IN
    IF fullKey \notin DOMAIN st THEN Fail("ErrEntryNotFound")
    ELSE IF st[fullKey].CompressionType # GetBodyCompression(kc) THEN Fail("ErrEntryNotFound")
    ELSE IF expireTime > st[fullKey].Timestamp THEN Fail("ErrEntryExpired")
    ELSE Ok(st[fullKey].Data)

\* Get that deletes the entry it finds expired
StorageAfterGet_EvictsExpired(st, key, kc, params, expireTime) ==
    LET fullKey == FullKey(key, params) IN
    IF fullKey \in DOMAIN st /\ expireTime > st[fullKey].Timestamp
    THEN [x \in (DOMAIN st) \ {fullKey} |-> st[x]]
    ELSE st

\* the store after a Get: "item has expired but DO NOT REMOVE THE ITEM"
StorageAfterGet(st, key, kc, params, expireTime) == st

\* the map after m[k] = v
MapPut(m, k, v) == [x \in (DOMAIN m) \cup {k} |-> IF x = k THEN v ELSE m[x]]

\* the map without the keys in ks
MapDrop(m, ks) == [x \in (DOMAIN m) \ ks |-> m[x]]

EmptyMap == [x \in {} |-> x]

\* Set that keeps the stored entry when it is newer than the one given
StorageSet_KeepsNewer(st, key, kc, params, value, timestamp) ==
    LET fullKey == FullKey(key, params) IN
    IF fullKey \in DOMAIN st /\ st[fullKey].Timestamp > timestamp THEN st
    ELSE MapPut(st, fullKey,
                [Data |-> value, Timestamp |-> timestamp,
                 CompressionType |-> GetBodyCompression(kc)])

\* InMemoryStorage.Set
StorageSet(st, key, kc, params, value, timestamp) ==
    MapPut(st, FullKey(key, params),
           [Data |-> value, Timestamp |-> timestamp,
            CompressionType |-> GetBodyCompression(kc)])

\* InMemoryStorage.Cleanup: the full keys it deletes
ExpiredKeys(st, key, expireTime) ==
    {fk \in DOMAIN st : HasPrefix(fk, key \o <<":">>) /\ expireTime > st[fk].Timestamp}

StorageCleanup(st, key, kc, expireTime) == MapDrop(st, ExpiredKeys(st, key, expireTime))

StorageEntryCount(st) == Cardinality(DOMAIN st)

StorageExpiredEntryCount(st, key, kc, expireTime) ==
    Cardinality(ExpiredKeys(st, key, expireTime))

----------------------------------------------------------------------------
(* DiskStorage: the files under BasePath, path -> content and modification time *)

\* getCacheItemPath with SHA256HexPather: the key as the directory, the digest
\* of the params as the nested file name (the digest is taken to be free of
\* collisions and is stood for by the params), the compression as extension
DiskPathOf(key, compression, params) ==
    [dir |-> key, file |-> params,
     ext |-> IF compression = "none" THEN "" ELSE compression]

DiskPath(key, kc, params) == DiskPathOf(key, GetBodyCompression(kc), params)

\* DiskStorage.Get without I/O errors
DiskGet(fs, key, kc, params, expireTime) ==
    LET path == DiskPath(key, kc, params) IN
    IF path \notin DOMAIN fs THEN Fail("ErrEntryNotFound")
    ELSE IF expireTime > fs[path].Timestamp THEN Fail("ErrEntryExpired")
    ELSE Ok(fs[path].Data)

\* DiskStorage.Set without I/O errors: WriteFile, then Chtimes
DiskSet(fs, key, kc, params, value, timestamp) ==
    MapPut(fs, DiskPath(key, kc, params), [Data |-> value, Timestamp |-> timestamp])

\* the files DiskStorage.Cleanup removes: those under BasePath/key (keys hold
\* no path separator) that are older than expireTime
DiskExpiredPaths(fs, key, expireTime) ==
    {path \in DOMAIN fs : path.dir = key /\ expireTime > fs[path].Timestamp}

DiskCleanup(fs, key, kc, expireTime) == MapDrop(fs, DiskExpiredPaths(fs, key, expireTime))

DiskEntryCount(fs) == Cardinality(DOMAIN fs)

DiskExpiredEntryCount(fs, key, kc, expireTime) ==
    Cardinality(DiskExpiredPaths(fs, key, expireTime))

----------------------------------------------------------------------------
(* The CacheStorage interface over the two backends *)

Backends == {"memory", "disk"}

BackendGet(b, st, key, kc, params, expireTime) ==
    IF b = "memory" THEN StorageGet(st, key, kc, params, expireTime)
    ELSE DiskGet(st, key, kc, params, expireTime)

BackendSet(b, st, key, kc, params, value, timestamp) ==
    IF b = "memory" THEN StorageSet(st, key, kc, params, value, timestamp)
    ELSE DiskSet(st, key, kc, params, value, timestamp)

BackendCleanup(b, st, key, kc, expireTime) ==
    IF b = "memory" THEN StorageCleanup(st, key, kc, expireTime)
    ELSE DiskCleanup(st, key, kc, expireTime)

BackendEntryCount(b, st) ==
    IF b = "memory" THEN StorageEntryCount(st) ELSE DiskEntryCount(st)

BackendExpiredEntryCount(b, st, key, kc, expireTime) ==
    IF b = "memory" THEN StorageExpiredEntryCount(st, key, kc, expireTime)
    ELSE DiskExpiredEntryCount(st, key, kc, expireTime)

----------------------------------------------------------------------------
(* KeyConfig.MarshalJSON / UnmarshalJSON and the JSON form of a Config.   *)
(* A strategy is written as its String(); a JSON null is <<>>, any other  *)
(* JSON value v is <<v>>.                                                  *)

\* codecMap, compressionMap and paramMap: the registered strategies by name
CodecMap == [n \in {"string", "json", "msgpack"} |-> n]
CompressionMap == [n \in {"none", "gzip", "brotli", "zstd"} |-> n]
\* a paramMap without the base64 codec
ParamMap_JSONOnly == [n \in {"json"} |-> n]
ParamMap == [n \in {"json", "json+base64"} |-> n]

\* m[name] of a Go map of interfaces: nil for a name that is not a key
Registered(m, name) == IF name \in DOMAIN m THEN m[name] ELSE Nil

\* the name MarshalJSON writes for a strategy: "" when it is nil
StrategyName(strategy) == IF strategy = Nil THEN "" ELSE strategy

\* the zero keyConfigRaw
KeyConfigRawZero ==
    [ttl |-> 0, ttl_jitter |-> 0, fallback_to_expired |-> FALSE,
     param_codec |-> "", body_codec |-> "", body_compression |-> ""]

\* KeyConfig.MarshalJSON: the JSON object, omitempty members left out
KeyConfigMarshal(kc) ==
    LET aux == [ttl |-> kc.TTL, ttl_jitter |-> kc.TTLJitter,
                fallback_to_expired |-> kc.FallbackToExpired,
                param_codec |-> StrategyName(kc.ParamCodec),
                body_codec |-> StrategyName(kc.BodyCodec),
                body_compression |-> StrategyName(kc.BodyCompression)]
    IN  [f \in {g \in DOMAIN aux : g = "ttl" \/ aux[g] # KeyConfigRawZero[g]} |-> aux[f]]

\* KeyConfig.UnmarshalJSON
KeyConfigUnmarshal(data) ==
    LET aux == [f \in DOMAIN KeyConfigRawZero |->
                   IF f \in DOMAIN data THEN data[f] ELSE KeyConfigRawZero[f]]
    IN  [TTL |-> aux.ttl, TTLJitter |-> aux.ttl_jitter,
         FallbackToExpired |-> aux.fallback_to_expired,
         BodyCompression |-> Registered(CompressionMap, aux.body_compression),
         BodyCodec |-> Registered(CodecMap, aux.body_codec),
         ParamCodec |-> Registered(ParamMap, aux.param_codec)]

\* json.Marshal(&config)
ConfigMarshal(c) ==
    [Defaults |-> IF c.Defaults = <<>> THEN <<>> ELSE <<KeyConfigMarshal(c.Defaults[1])>>,
     Configs |-> IF c.ConfigsNil THEN <<>>
                 ELSE <<[k \in DOMAIN c.Configs |-> KeyConfigMarshal(c.Configs[k])]>>]

\* json.Unmarshal(data, &otherConfig) into a zero Config
ConfigUnmarshal(j) ==
    [Defaults |-> IF j.Defaults = <<>> THEN <<>>
                  ELSE <<KeyConfigUnmarshal(j.Defaults[1])>>,
     Configs |-> IF j.Configs = <<>> THEN EmptyMap
                 ELSE [k \in DOMAIN j.Configs[1] |-> KeyConfigUnmarshal(j.Configs[1][k])],
     ConfigsNil |-> j.Configs = <<>>]

----------------------------------------------------------------------------
(* The sets the inputs are drawn from *)

Callers == {"c1", "c2"}

KeyA == <<"a">>
KeyAB == <<"a", ":", "b">>
Keys == {KeyA, KeyAB}
\* the keys whose KeyConfig the embedder replaces
HotKeys == {KeyA}

KC(ttl, jitter, fallback, pcodec, bcodec, compression) ==
    [TTL |-> ttl, TTLJitter |-> jitter, FallbackToExpired |-> fallback,
     BodyCompression |-> compression, BodyCodec |-> bcodec, ParamCodec |-> pcodec]

CfgFallback == KC(1, 0, TRUE, Nil, Nil, "gzip")
CfgPlain == KC(1, 0, FALSE, Nil, "string", "none")
CfgJitter == KC(1, 2, TRUE, Nil, "json", "none")
CfgNoCache == KC(TTLEntryImmediatelyExpires, 0, TRUE, Nil, "string", "none")

ConfigChoices == {CfgFallback, CfgPlain, CfgJitter, CfgNoCache}

\* a context holds at most one value; key "" is the empty context
NoCtx == [key |-> "", val |-> ""]
Ctx(k, v) == [key |-> k, val |-> v]
CtxChoices == {NoCtx, Ctx("ignoreCache", "true"), Ctx("custom", "true")}

\* what a resolver can return: a value and whether it failed
ResolverOutcomes ==
    [val : GoodValues \cup {Func}, err : {FALSE}] \cup [val : {Zero}, err : {TRUE}]

NoErr == [kind |-> "nil", wraps |-> "nil"]

\* no direct call has been made
NoIO == [op |-> "none"]

IdleCall ==
    [pc |-> "idle", variant |-> "", key |-> <<>>, params |-> "", ctx |-> NoCtx,
     ignore |-> FALSE, kc |-> DefaultKeyConfig, paramStr |-> <<>>, result |-> Zero,
     entryIsExpired |-> FALSE, err |-> NoErr,
     \* history of the call
     probe |-> "none", probeNow |-> 0, fallback |-> "none", resolverCalls |-> 0,
     gets |-> 0, sets |-> 0, setFailed |-> FALSE,
     resolved |-> [val |-> Zero, err |-> FALSE], store0 |-> EmptyMap]

----------------------------------------------------------------------------
(* CacheFunk *)

\* an engine whose unset IgnoreCtxKey stays the empty key
GetIgnoreCtxKey_NoDefault(k) == k

\* CacheFunk.GetIgnoreCtxKey: DefaultIgnoreCacheCtxKey when IgnoreCtxKey is ""
GetIgnoreCtxKey(k) == IF k = "" THEN "ignoreCache" ELSE k

\* ctx.Value(cache.GetIgnoreCtxKey()).(bool): the flag, false unless a bool is there
IgnoreFromCtx(k, ctx) ==
    ctx.key = GetIgnoreCtxKey(k) /\ ctx.val = "true"

\* CacheFunk.Get: the decoded value or the error; fault is a failing backend
CacheFunkGet(st, key, kc, params, ignoreExpireTime, t, fault) ==
    LET expireTime == IF ignoreExpireTime THEN MinDate ELSE GetExpireTime(kc, t)
        valueData == IF fault THEN Fail("StorageErr")
                     ELSE StorageGet(st, key, kc, params, expireTime)
    IN  IF ~valueData.ok THEN valueData
        ELSE LET plain == Decompress(GetBodyCompression(kc), valueData.v)
             IN  IF ~plain.ok THEN Fail("decompress")
                 ELSE BodyUnmarshal(GetBodyCodec(kc), plain.v)

\* Set without the ttl == 0 short cut
CacheFunkSetData_NoTTLCheck(kc, value) ==
    LET body == BodyMarshal(GetBodyCodec(kc), value)
    IN  IF ~body.ok THEN Fail("MarshalErr")
        ELSE Compress(GetBodyCompression(kc), body.v)

\* CacheFunk.Set up to the storage call: "skip", an error, or the bytes to store
CacheFunkSetData(kc, value) ==
    IF kc.TTL = TTLEntryImmediatelyExpires THEN Fail("skip")
    ELSE LET body == BodyMarshal(GetBodyCodec(kc), value)
         IN  IF ~body.ok THEN Fail("MarshalErr")
             ELSE Compress(GetBodyCompression(kc), body.v)

----------------------------------------------------------------------------
(* Cache and CacheWithContext, one action per step of the call *)

Quiet == \A q \in Callers : call[q].pc = "idle"

\* the embedder acts between calls in "seq" mode, at any moment in "conc" mode
EmbedderMay == mode = "conc" \/ Quiet

Finished(c, result, err) == [c EXCEPT !.pc = "done", !.result = result, !.err = err]

ParamsErr == [kind |-> "params", wraps |-> "ParamMarshalErr"]

\* the error Cache / CacheWithContext return when the resolver failed
\* (Cache formats the resolver's error with %w, CacheWithContext with %s)
RetrieveErr(variant) ==
    [kind |-> "retrieve", wraps |-> IF variant = "Cache" THEN "ResolverErr" ELSE "none"]

SetCacheErr(e) == [kind |-> "setcache", wraps |-> e]

\* a call that probes the cache whatever the ignore flag
FirstStep_AlwaysProbe(ignore) == "probe"

\* if !ignoreCache { cache.Get ... }
FirstStep(ignore) == IF ignore THEN "resolve" ELSE "probe"

\* Config.Get, ParamCodec.Marshal and the decision to probe, for the first
\* limit calls of the behaviour
StartCall(p, variant, key, params, ignoreCache, ctx, limit) ==
    /\ call[p].pc = "idle"
    /\ mode = "conc" \/ p = "c1"
    /\ ops.calls < limit
    /\ LET kc == ConfigGet(config, key)
           paramStr == ParamMarshal(GetParamCodec(kc), params)
           ignore == IF variant = "Cache" THEN ignoreCache
                     ELSE IgnoreFromCtx(ignoreCtxKey, ctx)
           c == [IdleCall EXCEPT !.variant = variant, !.key = key, !.params = params,
                                 !.ctx = ctx, !.ignore = ignore, !.kc = kc,
                                 !.store0 = store]
       IN  /\ config' = ConfigAfterGet(config)
           /\ call' = [call EXCEPT ![p] =
                  IF ~paramStr.ok
                  THEN Finished(c, Zero, ParamsErr)
                  ELSE [c EXCEPT !.paramStr = paramStr.v, !.pc = FirstStep(ignore)]]
    /\ ops' = [ops EXCEPT !.calls = @ + 1]
    /\ UNCHANGED <<ignoreCtxKey, store, now, written, mode, backend, io>>

CallStart(p, variant, key, params, ignoreCache, ctx) ==
    StartCall(p, variant, key, params, ignoreCache, ctx, MaxCalls)

\* what a cache.Get returned: "hit", "expired", "notfound" or the failure
GetClass(r) ==
    IF r.ok THEN "hit"
    ELSE IF r.v = "ErrEntryExpired" THEN "expired"
    ELSE IF r.v = "ErrEntryNotFound" THEN "notfound"
    ELSE r.v

\* the values a failed Unmarshal can leave in its target
AfterFailedGet(r, cur) == IF r.v = "unmarshal" THEN {cur, Partial} ELSE {cur}

\* a probe whose read failures end the call with the error
AfterProbe_FatalReadError(c, r, res) ==
    IF r.ok THEN Finished(c, r.v, NoErr)
    ELSE IF r.v \in {"ErrEntryExpired", "ErrEntryNotFound"}
    THEN [c EXCEPT !.pc = "resolve", !.result = res,
                   !.entryIsExpired = (r.v = "ErrEntryExpired")]
    ELSE Finished(c, res, [kind |-> "get", wraps |-> r.v])

\* the branch on the error of the first cache.Get; res is what is in result
AfterProbe(c, r, res) ==
    IF r.ok THEN Finished(c, r.v, NoErr)
    ELSE [c EXCEPT !.pc = "resolve", !.result = res,
                   !.entryIsExpired = (r.v = "ErrEntryExpired")]

\* cache.Get(key, config, paramStr, false, &result)
Probe(p, fault) ==
    /\ call[p].pc = "probe"
    /\ LET c == call[p]
           r == CacheFunkGet(store, c.key, c.kc, c.paramStr, FALSE, now, fault)
           c1 == [c EXCEPT !.probe = GetClass(r), !.probeNow = now, !.gets = @ + 1]
       IN  /\ \E res \in (IF r.ok THEN {r.v} ELSE AfterFailedGet(r, c.result)) :
                  call' = [call EXCEPT ![p] = AfterProbe(c1, r, res)]
           /\ store' = IF fault THEN store
                       ELSE StorageAfterGet(store, c.key, c.kc, c.paramStr,
                                            GetExpireTime(c.kc, now))
    /\ UNCHANGED <<config, ignoreCtxKey, now, written, ops, mode, backend, io>>

\* an engine without stale fallback
UseFallback_Never(kc, entryIsExpired) == FALSE

\* an engine that falls back whatever the probe reported
UseFallback_WithoutExpiredHit(kc, entryIsExpired) == kc.FallbackToExpired

\* if config.FallbackToExpired && entryIsExpired
UseFallback(kc, entryIsExpired) == kc.FallbackToExpired /\ entryIsExpired

\* an engine that goes on to store what the resolver returned with an error
Resolve_StoresOnError(p, outcome) ==
    /\ call[p].pc = "resolve"
    /\ call' = [call EXCEPT ![p] =
           [call[p] EXCEPT !.result = outcome.val, !.resolverCalls = @ + 1,
                           !.resolved = outcome, !.pc = "set"]]
    /\ UNCHANGED <<config, ignoreCtxKey, store, now, written, ops, mode, backend, io>>

\* result, err = resolverFunc(...) and the branch on err
Resolve(p, outcome) ==
    /\ call[p].pc = "resolve"
    /\ LET c == call[p]
           c1 == [c EXCEPT !.result = outcome.val, !.resolverCalls = @ + 1,
                           !.resolved = outcome]
       IN  call' = [call EXCEPT ![p] =
               IF outcome.err
               THEN IF UseFallback(c.kc, c.entryIsExpired)
                    THEN [c1 EXCEPT !.pc = "fallback"]
                    ELSE Finished(c1, outcome.val, RetrieveErr(c.variant))
               ELSE [c1 EXCEPT !.pc = "set"]]
    /\ UNCHANGED <<config, ignoreCtxKey, store, now, written, ops, mode, backend, io>>

\* a fallback whose inner err is the outer one: its error is what is returned
AfterFallback_ReturnsReadError(c, r, res) ==
    IF r.ok THEN Finished(c, r.v, NoErr)
    ELSE Finished(c, res, [kind |-> "retrieve", wraps |-> r.v])

\* the return after the fallback cache.Get; res is what is in result
AfterFallback(c, r, res) ==
    IF r.ok THEN Finished(c, r.v, NoErr)
    ELSE Finished(c, res, RetrieveErr(c.variant))

\* cache.Get(key, config, paramStr, true, &result) after the resolver failed
Fallback(p, fault) ==
    /\ call[p].pc = "fallback"
    /\ LET c == call[p]
           r == CacheFunkGet(store, c.key, c.kc, c.paramStr, TRUE, now, fault)
           c1 == [c EXCEPT !.fallback = GetClass(r), !.gets = @ + 1]
       IN  /\ \E res \in (IF r.ok THEN {r.v} ELSE AfterFailedGet(r, c.result)) :
                  call' = [call EXCEPT ![p] = AfterFallback(c1, r, res)]
           /\ store' = IF fault THEN store
                       ELSE StorageAfterGet(store, c.key, c.kc, c.paramStr, MinDate)
    /\ UNCHANGED <<config, ignoreCtxKey, now, written, ops, mode, backend, io>>

\* a return that drops the value when Set failed
AfterSet_DropsValue(c, e) ==
    Finished(c, IF e = "nil" THEN c.result ELSE Zero,
             IF e = "nil" THEN NoErr ELSE SetCacheErr(e))

\* the return after cache.Set: e is "nil" or the error Set returned
AfterSet(c, e) ==
    Finished(c, c.result, IF e = "nil" THEN NoErr ELSE SetCacheErr(e))

\* cache.Set(key, config, paramStr, result) and the return
SetResult(p, fault) ==
    /\ call[p].pc = "set"
    /\ LET c == call[p]
           data == CacheFunkSetData(c.kc, c.result)
       IN  IF ~data.ok
           THEN /\ ~fault
                /\ call' = [call EXCEPT ![p] =
                       AfterSet(c, IF data.v = "skip" THEN "nil" ELSE data.v)]
                /\ UNCHANGED <<store, written>>
           ELSE IF fault
           THEN /\ call' = [call EXCEPT ![p] =
                       AfterSet([c EXCEPT !.sets = @ + 1, !.setFailed = TRUE], "StorageErr")]
                /\ UNCHANGED <<store, written>>
           ELSE \E delay \in JitterDelays(c.kc) :
                /\ store' = StorageSet(store, c.key, c.kc, c.paramStr, data.v,
                                       GetTimestamp(c.kc, now, delay))
                /\ written' = MapPut(written, FullKey(c.key, c.paramStr),
                                     [val |-> c.result, kc |-> c.kc])
                /\ call' = [call EXCEPT ![p] = AfterSet([c EXCEPT !.sets = @ + 1], "nil")]
    /\ UNCHANGED <<config, ignoreCtxKey, now, ops, mode, backend, io>>

\* the caller takes the returned value and error
Finish(p) ==
    /\ call[p].pc = "done"
    /\ call' = [call EXCEPT ![p] = IdleCall]
    /\ UNCHANGED <<config, ignoreCtxKey, store, now, written, ops, mode, backend, io>>

----------------------------------------------------------------------------
(* The embedder and the clock *)

Tick ==
    /\ now < MaxNow
    /\ now' = now + 1
    /\ UNCHANGED <<config, ignoreCtxKey, store, call, written, ops, mode, backend, io>>

\* an embedder that overwrites the KeyConfig the calls in progress point to
SetConfig_InPlace(key, kc) ==
    /\ EmbedderMay
    /\ ~config.ConfigsNil
    /\ ops.cfg < MaxCfgChanges
    /\ IF key \in DOMAIN config.Configs THEN config.Configs[key] # kc ELSE TRUE
    /\ config' = [config EXCEPT !.Configs = MapPut(@, key, kc)]
    /\ call' = [p \in Callers |->
                   IF call[p].pc # "idle" /\ call[p].key = key
                   THEN [call[p] EXCEPT !.kc = kc] ELSE call[p]]
    /\ ops' = [ops EXCEPT !.cfg = @ + 1]
    /\ UNCHANGED <<ignoreCtxKey, store, now, written, mode, backend, io>>

\* cache.Config.Configs[key] = &KeyConfig{...}
SetConfig(key, kc) ==
    /\ EmbedderMay
    /\ ~config.ConfigsNil
    /\ ops.cfg < MaxCfgChanges
    /\ IF key \in DOMAIN config.Configs THEN config.Configs[key] # kc ELSE TRUE
    /\ config' = [config EXCEPT !.Configs = MapPut(@, key, kc)]
    /\ ops' = [ops EXCEPT !.cfg = @ + 1]
    /\ UNCHANGED <<ignoreCtxKey, store, now, call, written, mode, backend, io>>

\* the keys CacheFunk.Cleanup and CacheFunk.ExpiredEntryCount visit
VisitedKeys(c) ==
    IF c.ConfigsNil THEN {}
    ELSE {k \in DOMAIN c.Configs : c.Configs[k].TTL # TTLEntryNeverExpires}

\* the sum of f over the keys in S
RECURSIVE SumOver(_, _)
SumOver(f, S) ==
    IF S = {} THEN 0
    ELSE LET k == CHOOSE x \in S : TRUE IN f[k] + SumOver(f, S \ {k})

\* CacheFunk.ExpiredEntryCount: the sum of Storage.ExpiredEntryCount over the visited keys
CacheFunkExpiredEntryCount(st, c, t) ==
    SumOver([k \in VisitedKeys(c) |->
                StorageExpiredEntryCount(st, k, c.Configs[k], GetExpireTime(c.Configs[k], t))],
            VisitedKeys(c))

\* CacheFunk.Cleanup: Storage.Cleanup for every visited key
CacheFunkCleanup(st, c, t) ==
    MapDrop(st, UNION {ExpiredKeys(st, k, GetExpireTime(c.Configs[k], t)) : k \in VisitedKeys(c)})

Cleanup ==
    /\ EmbedderMay
    /\ store' = CacheFunkCleanup(store, config, now)
    /\ store' # store
    /\ written' = MapDrop(written, (DOMAIN written) \ (DOMAIN store'))
    /\ UNCHANGED <<config, ignoreCtxKey, now, call, ops, mode, backend, io>>

\* CacheFunk.Clear
Clear ==
    /\ EmbedderMay
    /\ store # EmptyMap
    /\ store' = EmptyMap
    /\ written' = EmptyMap
    /\ UNCHANGED <<config, ignoreCtxKey, now, call, ops, mode, backend, io>>

\* cache.Storage.Set called directly with bytes that are marshalled but not compressed
RawSet(key, params, v) ==
    /\ EmbedderMay
    /\ ops.raw < MaxRawSets
    /\ LET kc == ConfigGet(config, key)
           paramStr == ParamMarshal(GetParamCodec(kc), params)
       IN  /\ paramStr.ok
           /\ store' = StorageSet(store, key, kc, paramStr.v,
                                  Bytes("", "json", v), GetTimestamp(kc, now, 0))
           /\ written' = MapDrop(written, {FullKey(key, paramStr.v)})
    /\ config' = ConfigAfterGet(config)
    /\ ops' = [ops EXCEPT !.raw = @ + 1]
    /\ UNCHANGED <<ignoreCtxKey, now, call, mode, backend, io>>

----------------------------------------------------------------------------
(* The specification *)

InitConfigs ==
    {[Defaults |-> d, Configs |-> m, ConfigsNil |-> FALSE] :
        d \in {<<CfgPlain>>},
        m \in [{KeyA} -> ConfigChoices]}

InitCommon ==
    /\ config \in InitConfigs
    /\ ignoreCtxKey = ""
    /\ store = EmptyMap
    /\ now = NowStart
    /\ call = [p \in Callers |-> IdleCall]
    /\ written = EmptyMap
    /\ ops = [calls |-> 0, cfg |-> 0, raw |-> 0, adv |-> 0]
    /\ backend = "memory"
    /\ io = NoIO

Init == InitCommon /\ mode = "seq"

Next ==
    \/ \E p \in Callers, key \in Keys, params \in CallParams, ignoreCache \in BOOLEAN :
           CallStart(p, "Cache", key, params, ignoreCache, NoCtx)
    \/ \E p \in Callers, key \in Keys, params \in CallParams, ctx \in CtxChoices :
           CallStart(p, "CacheWithContext", key, params, FALSE, ctx)
    \/ \E p \in Callers, fault \in BOOLEAN : Probe(p, fault)
    \/ \E p \in Callers, outcome \in ResolverOutcomes : Resolve(p, outcome)
    \/ \E p \in Callers, fault \in BOOLEAN : Fallback(p, fault)
    \/ \E p \in Callers, fault \in BOOLEAN : SetResult(p, fault)
    \/ \E p \in Callers : Finish(p)
    \/ Tick
    \/ \E key \in HotKeys, kc \in ConfigChoices : SetConfig(key, kc)
    \/ Cleanup
    \/ Clear
    \/ \E key \in HotKeys : RawSet(key, "p1", "v2")

Spec == Init /\ [][Next]_vars

----------------------------------------------------------------------------
(* Direct calls of KeyConfig.GetExpireTime and KeyConfig.GetTimestamp *)

PolicyTTLs ==
    {-2, TTLEntryNeverExpires, TTLEntryImmediatelyExpires, 1, 2, 3, 20,
     MaxDurationSec - 1, MaxDurationSec, TTLMax, TTLMax + 1}
PolicyJitters == {-1, 0, 1, 2, 3, 20, MaxDurationSec + 1, MaxDurationSec + 3}
PolicyKCs ==
    {KC(ttl, jitter, FALSE, Nil, "string", "none") : ttl \in PolicyTTLs, jitter \in PolicyJitters}
PolicyNows == {MinDate, MinDate + 1, NowStart, 25, MaxDurationSec + 10, MaxDate}
\* the delays rand.Int64N is taken to return
DelaySamples ==
    {0, 1, 2, 3, 19, 20, MaxDurationSec, MaxDurationSec + 1, MaxDurationSec + 2}
SampledDelays(kc) == {d \in DelaySamples : d \in JitterDelays(kc)}

\* a zero-value Config, a fresh InMemoryStorage, nothing called yet
InitDirect ==
    /\ config = [Defaults |-> <<>>, Configs |-> EmptyMap, ConfigsNil |-> TRUE]
    /\ ignoreCtxKey = ""
    /\ store = EmptyMap
    /\ now = NowStart
    /\ call = [p \in Callers |-> IdleCall]
    /\ written = EmptyMap
    /\ ops = [calls |-> 0, cfg |-> 0, raw |-> 0, adv |-> 0]
    /\ mode = "seq"
    /\ backend = "memory"
    /\ io = NoIO

\* kc.GetExpireTime(t), the one call of the behaviour
CallGetExpireTime(kc, t) ==
    /\ io = NoIO
    /\ io' = [op |-> "GetExpireTime", kc |-> kc, t |-> t, out |-> GetExpireTime(kc, t)]
    /\ UNCHANGED <<config, ignoreCtxKey, store, now, call, written, ops, mode, backend>>

\* kc.GetTimestamp(t), rand.Int64N returning delay; the one call of the behaviour
CallGetTimestamp(kc, t, delay) ==
    /\ io = NoIO
    /\ delay \in SampledDelays(kc)
    /\ io' = [op |-> "GetTimestamp", kc |-> kc, t |-> t, delay |-> delay,
              out |-> GetTimestamp(kc, t, delay)]
    /\ UNCHANGED <<config, ignoreCtxKey, store, now, call, written, ops, mode, backend>>

NextPolicy ==
    \/ \E kc \in PolicyKCs, t \in PolicyNows : CallGetExpireTime(kc, t)
    \/ \E kc \in PolicyKCs, t \in PolicyNows, delay \in DelaySamples :
           CallGetTimestamp(kc, t, delay)

SpecPolicy == InitDirect /\ [][NextPolicy]_vars

----------------------------------------------------------------------------
(* Direct calls of CacheFunk.Set and CacheFunk.Get with the clock moving *)

AdvanceSteps == {1, 2, 3, 20, MaxDurationSec + 1, MaxDate + 1}

\* cache.Set(key, kc, params, v) on the empty store
CallSet(key, kc, params, v) ==
    /\ store = EmptyMap
    /\ LET data == CacheFunkSetData(kc, v)
       IN  IF data.ok
           THEN \E delay \in SampledDelays(kc) :
                    store' = StorageSet(store, key, kc, params, data.v,
                                        GetTimestamp(kc, now, delay))
           ELSE store' = store
    /\ io' = [op |-> "Set", key |-> key, kc |-> kc, params |-> params, at |-> now]
    /\ UNCHANGED <<config, ignoreCtxKey, now, call, written, ops, mode, backend>>

\* the clock moves on by d seconds
Advance(d) ==
    /\ ops.adv < MaxAdvances
    /\ now' = now + d
    /\ ops' = [ops EXCEPT !.adv = @ + 1]
    /\ UNCHANGED <<config, ignoreCtxKey, store, call, written, mode, backend, io>>

\* cache.Get with the key, KeyConfig and params of the Set made before
CallGet(ignoreExpireTime) ==
    /\ io.op \in {"Set", "Get"}
    /\ io' = [op |-> "Get", key |-> io.key, kc |-> io.kc, params |-> io.params,
              at |-> now, setAt |-> IF io.op = "Set" THEN io.at ELSE io.setAt,
              ignore |-> ignoreExpireTime,
              class |-> GetClass(CacheFunkGet(store, io.key, io.kc, io.params,
                                              ignoreExpireTime, now, FALSE))]
    /\ store' = StorageAfterGet(store, io.key, io.kc, io.params,
                                IF ignoreExpireTime THEN MinDate
                                ELSE GetExpireTime(io.kc, now))
    /\ UNCHANGED <<config, ignoreCtxKey, now, call, written, ops, mode, backend>>

NextSetGet ==
    \/ \E kc \in PolicyKCs : CallSet(KeyA, kc, <<"p1">>, "v1")
    \/ \E d \in AdvanceSteps : Advance(d)
    \/ \E ignoreExpireTime \in BOOLEAN : CallGet(ignoreExpireTime)

SpecSetGet == InitDirect /\ [][NextSetGet]_vars

----------------------------------------------------------------------------
(* Direct calls of the CacheStorage methods, on either backend.  Here      *)
(* written maps a (key, params) pair to the entry its last Set gave.       *)

StorageKCs == {CfgPlain, CfgFallback}
StorageParams == {<<"p1">>, <<"p2">>}
StorageValues == {Bytes("", "string", "v1"), Bytes("", "string", "v2")}
StorageTimes == {NowStart - 1, NowStart, NowStart + 1}
StorageCutoffs == {NowStart}

\* where the backend keeps the entry of (key, params) under a compression
EntryId(b, key, compression, params) ==
    IF b = "memory" THEN FullKey(key, params) ELSE DiskPathOf(key, compression, params)

\* the pairs of w whose last Set is still what the store st holds for them
Surviving(b, st, w) ==
    {pr \in DOMAIN w :
        LET id == EntryId(b, pr[1], w[pr].CompressionType, pr[2])
        IN  id \in DOMAIN st /\ st[id].Data = w[pr].Data
                             /\ st[id].Timestamp = w[pr].Timestamp}

InitStorage ==
    /\ config = [Defaults |-> <<>>, Configs |-> EmptyMap, ConfigsNil |-> TRUE]
    /\ ignoreCtxKey = ""
    /\ store = EmptyMap
    /\ now = NowStart
    /\ call = [p \in Callers |-> IdleCall]
    /\ written = EmptyMap
    /\ ops = [calls |-> 0, cfg |-> 0, raw |-> 0, adv |-> 0]
    /\ mode = "seq"
    /\ backend \in Backends
    /\ io = NoIO

\* storage.Set(key, kc, params, value, timestamp)
StSet(key, kc, params, value, timestamp) ==
    /\ ops.raw < MaxStorageSets
    /\ LET id == EntryId(backend, key, GetBodyCompression(kc), params) IN
       io' = [op |-> "Set", key |-> key, params |-> params,
              replaced |-> IF id \in DOMAIN store THEN <<store[id]>> ELSE <<>>]
    /\ store' = BackendSet(backend, store, key, kc, params, value, timestamp)
    /\ written' = MapPut(written, <<key, params>>,
                         [Data |-> value, Timestamp |-> timestamp,
                          CompressionType |-> GetBodyCompression(kc)])
    /\ ops' = [ops EXCEPT !.raw = @ + 1]
    /\ UNCHANGED <<config, ignoreCtxKey, now, call, mode, backend>>

\* storage.Get(key, kc, params, expireTime)
StGet(key, kc, params, expireTime) ==
    /\ store # EmptyMap
    /\ io' = [op |-> "Get", key |-> key, kc |-> kc, params |-> params,
              expireTime |-> expireTime,
              out |-> BackendGet(backend, store, key, kc, params, expireTime)]
    /\ store' = IF backend = "memory"
                THEN StorageAfterGet(store, key, kc, params, expireTime)
                ELSE store
    /\ UNCHANGED <<config, ignoreCtxKey, now, call, written, ops, mode, backend>>

\* storage.Cleanup(key, kc, expireTime)
StCleanup(key, kc, expireTime) ==
    /\ store # EmptyMap
    /\ io' = [op |-> "Cleanup", key |-> key, expireTime |-> expireTime]
    /\ store' = BackendCleanup(backend, store, key, kc, expireTime)
    /\ written' = [pr \in Surviving(backend, store', written) |-> written[pr]]
    /\ UNCHANGED <<config, ignoreCtxKey, now, call, ops, mode, backend>>

\* storage.ExpiredEntryCount(key, kc, expireTime)
StExpiredEntryCount(key, kc, expireTime) ==
    /\ store # EmptyMap
    /\ io' = [op |-> "ExpiredEntryCount", key |-> key, expireTime |-> expireTime,
              out |-> BackendExpiredEntryCount(backend, store, key, kc, expireTime)]
    /\ UNCHANGED <<config, ignoreCtxKey, store, now, call, written, ops, mode, backend>>

\* storage.EntryCount()
StEntryCount ==
    /\ store # EmptyMap
    /\ io' = [op |-> "EntryCount", out |-> BackendEntryCount(backend, store)]
    /\ UNCHANGED <<config, ignoreCtxKey, store, now, call, written, ops, mode, backend>>

\* storage.Clear()
StClear ==
    /\ store # EmptyMap
    /\ io' = [op |-> "Clear"]
    /\ store' = EmptyMap
    /\ written' = EmptyMap
    /\ UNCHANGED <<config, ignoreCtxKey, now, call, ops, mode, backend>>

NextStorage ==
    \/ \E key \in Keys, kc \in StorageKCs, params \in StorageParams,
          value \in StorageValues, timestamp \in StorageTimes :
          StSet(key, kc, params, value, timestamp)
    \/ \E key \in Keys, kc \in StorageKCs, params \in StorageParams,
          expireTime \in StorageCutoffs : StGet(key, kc, params, expireTime)
    \/ \E key \in Keys, expireTime \in StorageCutoffs :
          StCleanup(key, CfgPlain, expireTime)
    \/ \E key \in Keys, expireTime \in StorageCutoffs :
          StExpiredEntryCount(key, CfgPlain, expireTime)
    \/ StEntryCount
    \/ StClear

SpecStorage == InitStorage /\ [][NextStorage]_vars

----------------------------------------------------------------------------
(* Wrapped calls for a key that never expires, "a:b", beside the key "a"    *)
(* with a ttl of one second, while the clock moves by any amount           *)

ForeverTTLs == {TTLEntryNeverExpires, -2, TTLMax + 1}
ForeverKCs == {KC(ttl, jitter, FALSE, Nil, "string", "none") :
                  ttl \in ForeverTTLs, jitter \in {0, 2}}

InitForever ==
    /\ config \in {[Defaults |-> <<CfgPlain>>,
                    Configs |-> [k \in Keys |-> IF k = KeyAB THEN kc ELSE CfgFallback],
                    ConfigsNil |-> FALSE] : kc \in ForeverKCs}
    /\ ignoreCtxKey = ""
    /\ store = EmptyMap
    /\ now = NowStart
    /\ call = [p \in Callers |-> IdleCall]
    /\ written = EmptyMap
    /\ ops = [calls |-> 0, cfg |-> 0, raw |-> 0, adv |-> 0]
    /\ mode = "seq"
    /\ backend = "memory"
    /\ io = NoIO

NextForever ==
    \/ \E p \in Callers, key \in Keys, ignoreCache \in BOOLEAN :
           CallStart(p, "Cache", key, "p1", ignoreCache, NoCtx)
    \/ \E p \in Callers : Probe(p, FALSE)
    \/ \E p \in Callers, outcome \in ResolverOutcomes : Resolve(p, outcome)
    \/ \E p \in Callers : Fallback(p, FALSE)
    \/ \E p \in Callers : SetResult(p, FALSE)
    \/ \E p \in Callers : Finish(p)
    \/ \E d \in AdvanceSteps : Advance(d)
    \/ Cleanup
    \/ \E key \in HotKeys : RawSet(key, "p1", "v2")

SpecForever == InitForever /\ [][NextForever]_vars

----------------------------------------------------------------------------
(* Wrapped calls over several keys and several params, the clock standing *)

PairParams == {"p1", "p2", "p3"}

InitPairs ==
    /\ config \in {[Defaults |-> <<CfgPlain>>, Configs |-> [k \in {KeyA} |-> kc],
                    ConfigsNil |-> FALSE] : kc \in {CfgPlain, CfgJitter}}
    /\ ignoreCtxKey = ""
    /\ store = EmptyMap
    /\ now = NowStart
    /\ call = [p \in Callers |-> IdleCall]
    /\ written = EmptyMap
    /\ ops = [calls |-> 0, cfg |-> 0, raw |-> 0, adv |-> 0]
    /\ mode = "seq"
    /\ backend = "memory"
    /\ io = NoIO

NextPairs ==
    \/ \E p \in Callers, key \in Keys, params \in PairParams :
           StartCall(p, "Cache", key, params, FALSE, NoCtx, MaxPairCalls)
    \/ \E p \in Callers : Probe(p, FALSE)
    \/ \E p \in Callers, outcome \in ResolverOutcomes : Resolve(p, outcome)
    \/ \E p \in Callers : SetResult(p, FALSE)
    \/ \E p \in Callers : Finish(p)

SpecPairs == InitPairs /\ [][NextPairs]_vars

----------------------------------------------------------------------------
(* Direct calls of Config.Get and of the JSON round trip of a Config *)

\* the KeyConfigs of TestConfigMarshalUnmarshal, and one that never expires
ConfigKCs ==
    {KC(1, 0, FALSE, Nil, Nil, Nil),
     KC(1, 1, TRUE, "json", "json", "gzip"),
     KC(1, 1, TRUE, "json+base64", "msgpack", "zstd"),
     KC(1, 1, TRUE, Nil, "string", "brotli"),
     KC(TTLEntryNeverExpires, 0, FALSE, Nil, "string", "none")}

KeyZ == <<"z">>
LookupKeys == Keys \cup {KeyZ}

\* every Config over the keys: Defaults set or not, Configs nil, empty or filled
AllConfigs ==
    {[Defaults |-> d, Configs |-> m, ConfigsNil |-> FALSE] :
        d \in {<<>>} \cup {<<kc>> : kc \in ConfigKCs},
        m \in UNION {[ks -> ConfigKCs] : ks \in SUBSET Keys}}
    \cup
    {[Defaults |-> d, Configs |-> EmptyMap, ConfigsNil |-> TRUE] :
        d \in {<<>>} \cup {<<kc>> : kc \in ConfigKCs}}

InitConfig ==
    /\ config \in AllConfigs
    /\ ignoreCtxKey = ""
    /\ store = EmptyMap
    /\ now = NowStart
    /\ call = [p \in Callers |-> IdleCall]
    /\ written = EmptyMap
    /\ ops = [calls |-> 0, cfg |-> 0, raw |-> 0, adv |-> 0]
    /\ mode = "seq"
    /\ backend = "memory"
    /\ io = NoIO

\* config.Get(key)
CallConfigGet(key) ==
    /\ io' = [op |-> "ConfigGet", key |-> key, before |-> config,
              out |-> ConfigGet(config, key)]
    /\ config' = ConfigAfterGet(config)
    /\ UNCHANGED <<ignoreCtxKey, store, now, call, written, ops, mode, backend>>

\* json.Marshal(&config), then json.Unmarshal of the result into a new Config
CallRoundTrip ==
    /\ io' = [op |-> "RoundTrip", before |-> config,
              out |-> ConfigUnmarshal(ConfigMarshal(config))]
    /\ UNCHANGED <<config, ignoreCtxKey, store, now, call, written, ops, mode, backend>>

NextConfig ==
    \/ \E key \in LookupKeys : CallConfigGet(key)
    \/ CallRoundTrip

SpecConfig == InitConfig /\ [][NextConfig]_vars

----------------------------------------------------------------------------
(* Direct calls of a BodyCodec and a Compression: encode as CacheFunk.Set  *)
(* does, decode as CacheFunk.Get does                                      *)

BodyCodecs == DOMAIN CodecMap
Compressions == DOMAIN CompressionMap
CodecValues == GoodValues \cup {Zero, Func, Private}

\* codec.Marshal, then compression.Compress
Encode(codec, compression, v) ==
    LET body == BodyMarshal(codec, v)
    IN  IF ~body.ok THEN Fail("MarshalErr") ELSE Compress(compression, body.v)

\* compression.Decompress, then codec.Unmarshal
Decode(codec, compression, b) ==
    LET plain == Decompress(compression, b)
    IN  IF ~plain.ok THEN Fail("decompress") ELSE BodyUnmarshal(codec, plain.v)

CallEncode(codec, compression, v) ==
    /\ io = NoIO
    /\ io' = [op |-> "Encode", codec |-> codec, compression |-> compression, v |-> v,
              enc |-> Encode(codec, compression, v)]
    /\ UNCHANGED <<config, ignoreCtxKey, store, now, call, written, ops, mode, backend>>

CallDecode(codec, compression) ==
    /\ io.op = "Encode"
    /\ io.enc.ok
    /\ io' = [op |-> "Decode", codec |-> io.codec, compression |-> io.compression,
              v |-> io.v, with |-> <<codec, compression>>,
              out |-> Decode(codec, compression, io.enc.v)]
    /\ UNCHANGED <<config, ignoreCtxKey, store, now, call, written, ops, mode, backend>>

NextCodec ==
    \/ \E codec \in BodyCodecs, compression \in Compressions, v \in CodecValues :
           CallEncode(codec, compression, v)
    \/ \E codec \in BodyCodecs, compression \in Compressions :
           CallDecode(codec, compression)

SpecCodec == InitDirect /\ [][NextCodec]_vars

----------------------------------------------------------------------------
(* CacheWithContext under contexts of every kind: the engine's IgnoreCtxKey *)
(* unset or set to "custom", the context empty or holding, under some key, *)
(* the boolean true ("true"), the boolean false ("false") or a string      *)
(* ("yes").  The key "ignoreCache/string" is the untyped string            *)
(* "ignoreCache", which is not the CtxKey "ignoreCache".                   *)

CtxKeys == {"ignoreCache", "custom", "ignoreCache/string"}
CtxValues == {"true", "false", "yes"}
AllCtxs == {NoCtx} \cup {Ctx(k, v) : k \in CtxKeys, v \in CtxValues}

InitCtx ==
    /\ config \in {[Defaults |-> <<CfgPlain>>, Configs |-> [k \in {KeyA} |-> kc],
                    ConfigsNil |-> FALSE] : kc \in {CfgPlain, CfgFallback}}
    /\ ignoreCtxKey \in {"", "custom"}
    /\ store = EmptyMap
    /\ now = NowStart
    /\ call = [p \in Callers |-> IdleCall]
    /\ written = EmptyMap
    /\ ops = [calls |-> 0, cfg |-> 0, raw |-> 0, adv |-> 0]
    /\ mode = "seq"
    /\ backend = "memory"
    /\ io = NoIO

NextCtx ==
    \/ \E p \in Callers, ctx \in AllCtxs :
           CallStart(p, "CacheWithContext", KeyA, "p1", FALSE, ctx)
    \/ \E p \in Callers : Probe(p, FALSE)
    \/ \E p \in Callers, outcome \in ResolverOutcomes : Resolve(p, outcome)
    \/ \E p \in Callers : SetResult(p, FALSE)
    \/ \E p \in Callers : Finish(p)

SpecCtx == InitCtx /\ [][NextCtx]_vars

----------------------------------------------------------------------------
(* Cache and CacheWithContext side by side.  Caller c1 makes calls through *)
(* Cache; one of them is then repeated by c2 through CacheWithContext from *)
(* the store the first began with, with the same key, parameters, ignore   *)
(* flag, resolver outcome and storage behaviour.  The clock stands still   *)
(* while a call runs and no KeyConfig has jitter, so that both calls see   *)
(* the same inputs.  io keeps the first call and the store it left.        *)

TwinKCs == {CfgFallback, CfgPlain, CfgNoCache}

InitTwin ==
    /\ config \in {[Defaults |-> <<CfgPlain>>, Configs |-> [k \in {KeyA} |-> kc],
                    ConfigsNil |-> FALSE] : kc \in TwinKCs}
    /\ ignoreCtxKey = ""
    /\ store = EmptyMap
    /\ now = NowStart
    /\ call = [p \in Callers |-> IdleCall]
    /\ written = EmptyMap
    /\ ops = [calls |-> 0, cfg |-> 0, raw |-> 0, adv |-> 0]
    /\ mode = "conc"
    /\ backend = "memory"
    /\ io = NoIO

\* c1 calls Cache
TwinFirst(ignoreCache) ==
    /\ io = NoIO
    /\ StartCall("c1", "Cache", KeyA, "p1", ignoreCache, NoCtx, MaxTwinCalls)

\* the store is put back to where c1's call found it
TwinRewind ==
    /\ io = NoIO
    /\ call["c1"].pc = "done"
    /\ call["c2"].pc = "idle"
    /\ io' = [op |-> "twin", first |-> call["c1"], after |-> store]
    /\ store' = call["c1"].store0
    /\ UNCHANGED <<config, ignoreCtxKey, now, call, written, ops, mode, backend>>

\* c2 calls CacheWithContext with a context that gives the same ignore flag
TwinSecond(ctx) ==
    /\ io.op = "twin"
    /\ IgnoreFromCtx(ignoreCtxKey, ctx) = io.first.ignore
    /\ StartCall("c2", "CacheWithContext", io.first.key, io.first.params, FALSE, ctx,
                 MaxTwinCalls + 1)

\* the resolver is free for c1 and repeats itself for c2
TwinResolve(p, outcome) ==
    /\ p = "c2" => (io.op = "twin" /\ outcome = io.first.resolved)
    /\ Resolve(p, outcome)

\* the storage fails for c2's Set when it failed for c1's
TwinSetResult(p, fault) ==
    /\ p = "c2" => (io.op = "twin" /\ fault = io.first.setFailed)
    /\ SetResult(p, fault)

TwinFinish ==
    /\ io = NoIO
    /\ Finish("c1")

TwinTick ==
    /\ Quiet
    /\ Tick

NextTwin ==
    \/ \E ignoreCache \in BOOLEAN : TwinFirst(ignoreCache)
    \/ TwinRewind
    \/ \E ctx \in CtxChoices : TwinSecond(ctx)
    \/ \E p \in Callers : Probe(p, FALSE)
    \/ \E p \in Callers, outcome \in ResolverOutcomes : TwinResolve(p, outcome)
    \/ \E p \in Callers : Fallback(p, FALSE)
    \/ \E p \in Callers, fault \in BOOLEAN : TwinSetResult(p, fault)
    \/ TwinFinish
    \/ TwinTick

SpecTwin == InitTwin /\ [][NextTwin]_vars

----------------------------------------------------------------------------
(* Concurrent wrapped calls over one InMemoryStorage.  Each step of a call *)
(* (Config.Get, the probe, the resolver, the Set) is atomic and the steps  *)
(* of different callers interleave freely.  InMemoryStorage.Store is a Go  *)
(* map that no lock guards: a write to it that runs while another caller   *)
(* reads or writes it is a data race, which the runtime either lets pass   *)
(* (the steps then take effect in some order) or stops with a fatal error  *)
(* that ends the process.                                                  *)

InitRace ==
    /\ config \in {[Defaults |-> <<CfgPlain>>, Configs |-> [k \in {KeyA} |-> kc],
                    ConfigsNil |-> FALSE] : kc \in {CfgPlain, CfgFallback}}
    /\ ignoreCtxKey = ""
    /\ store = EmptyMap
    /\ now = NowStart
    /\ call = [p \in Callers |-> IdleCall]
    /\ written = EmptyMap
    /\ ops = [calls |-> 0, cfg |-> 0, raw |-> 0, adv |-> 0]
    /\ mode = "conc"
    /\ backend = "memory"
    /\ io = NoIO

\* the caller's next step is c.Store[fullKey] = ... in InMemoryStorage.Set
AtMapWrite(c) == c.pc = "set" /\ CacheFunkSetData(c.kc, c.result).ok

\* the caller's next step is c.Store[fullKey] in InMemoryStorage.Get
AtMapRead(c) == c.pc \in {"probe", "fallback"}

\* fatal error: concurrent map writes / concurrent map read and map write
MapRace ==
    /\ \E p, q \in Callers :
           /\ p # q
           /\ AtMapWrite(call[p])
           /\ AtMapWrite(call[q]) \/ AtMapRead(call[q])
    /\ call' = [p \in Callers |-> [call[p] EXCEPT !.pc = "crashed"]]
    /\ UNCHANGED <<config, ignoreCtxKey, store, now, written, ops, mode, backend, io>>

NextRace ==
    \/ \E p \in Callers, params \in {"p1", "p2"} :
           StartCall(p, "Cache", KeyA, params, FALSE, NoCtx, MaxRaceCalls)
    \/ \E p \in Callers : Probe(p, FALSE)
    \/ \E p \in Callers, outcome \in ResolverOutcomes : Resolve(p, outcome)
    \/ \E p \in Callers : SetResult(p, FALSE)
    \/ \E p \in Callers : Finish(p)
    \/ MapRace

SpecRace == InitRace /\ [][NextRace]_vars

----------------------------------------------------------------------------
(* Calls of both variants by two callers whose steps interleave with each  *)
(* other and with the embedder's Cleanup, Clear, change of Config.Configs  *)
(* and the clock, over one InMemoryStorage.                                *)

ConcKCs == {CfgFallback, CfgPlain, CfgNoCache}

InitConc ==
    /\ config \in {[Defaults |-> <<CfgPlain>>, Configs |-> [k \in {KeyA} |-> kc],
                    ConfigsNil |-> FALSE] : kc \in ConcKCs}
    /\ ignoreCtxKey = ""
    /\ store = EmptyMap
    /\ now = NowStart
    /\ call = [p \in Callers |-> IdleCall]
    /\ written = EmptyMap
    /\ ops = [calls |-> 0, cfg |-> 0, raw |-> 0, adv |-> 0]
    /\ mode = "conc"
    /\ backend = "memory"
    /\ io = NoIO

NextConc ==
    \/ \E p \in Callers, ignoreCache \in BOOLEAN :
           StartCall(p, "Cache", KeyA, "p1", ignoreCache, NoCtx, MaxConcCalls)
    \/ \E p \in Callers :
           StartCall(p, "CacheWithContext", KeyA, "p1", FALSE, NoCtx, MaxConcCalls)
    \/ \E p \in Callers : Probe(p, FALSE)
    \/ \E p \in Callers, outcome \in ResolverOutcomes : Resolve(p, outcome)
    \/ \E p \in Callers, fault \in BOOLEAN : Fallback(p, fault)
    \/ \E p \in Callers : SetResult(p, FALSE)
    \/ \E p \in Callers : Finish(p)
    \/ Tick
    \/ \E kc \in ConcKCs : SetConfig(KeyA, kc)
    \/ Cleanup
    \/ Clear
    \/ MapRace

SpecConc == InitConc /\ [][NextConc]_vars

----------------------------------------------------------------------------
(* CacheFunk.Cleanup, ExpiredEntryCount and EntryCount over stores that    *)
(* wrapped calls have filled, for keys that Config.Configs lists and keys  *)
(* that resolve through Config.Defaults.  io keeps the last direct call    *)
(* with the store, the counts and the time it was made at.                 *)

SweepKeys == {KeyA, KeyAB, KeyZ}
CfgTwoSeconds == KC(2, 0, FALSE, Nil, "string", "none")
SweepConfigs ==
    {[Defaults |-> <<CfgPlain>>, Configs |-> m, ConfigsNil |-> FALSE] :
        m \in UNION {[S -> {CfgPlain, CfgTwoSeconds}] :
                         S \in {{KeyA}, {KeyA, KeyAB}, {KeyA, KeyZ}}}}

InitSweep ==
    /\ config \in SweepConfigs
    /\ ignoreCtxKey = ""
    /\ store = EmptyMap
    /\ now = NowStart
    /\ call = [p \in Callers |-> IdleCall]
    /\ written = EmptyMap
    /\ ops = [calls |-> 0, cfg |-> 0, raw |-> 0, adv |-> 0]
    /\ mode = "seq"
    /\ backend = "memory"
    /\ io = NoIO

\* cache.Cleanup()
CallCleanup ==
    /\ Quiet
    /\ store # EmptyMap
    /\ store' = CacheFunkCleanup(store, config, now)
    /\ written' = MapDrop(written, (DOMAIN written) \ (DOMAIN store'))
    /\ io' = [op |-> "Cleanup", t |-> now, before |-> store,
              expired |-> CacheFunkExpiredEntryCount(store, config, now),
              entries |-> StorageEntryCount(store)]
    /\ UNCHANGED <<config, ignoreCtxKey, now, call, ops, mode, backend>>

\* cache.ExpiredEntryCount()
CallExpiredEntryCount ==
    /\ Quiet
    /\ store # EmptyMap
    /\ io' = [op |-> "ExpiredEntryCount", t |-> now, before |-> store,
              out |-> CacheFunkExpiredEntryCount(store, config, now)]
    /\ UNCHANGED <<config, ignoreCtxKey, store, now, call, written, ops, mode, backend>>

NextSweep ==
    \/ \E p \in Callers, key \in SweepKeys :
           StartCall(p, "Cache", key, "p1", FALSE, NoCtx, MaxSweepCalls)
    \/ \E p \in Callers : Probe(p, FALSE)
    \/ \E p \in Callers, outcome \in ResolverOutcomes : Resolve(p, outcome)
    \/ \E p \in Callers : SetResult(p, FALSE)
    \/ \E p \in Callers : Finish(p)
    \/ Tick
    \/ CallCleanup
    \/ CallExpiredEntryCount

SpecSweep == InitSweep /\ [][NextSweep]_vars

----------------------------------------------------------------------------
(* KeyConfig.GetExpireTime over the whole range of ttl: values around the  *)
(* largest Duration, values whose nanoseconds wrap around once and more,   *)
(* and the ends of the ttl's own integer, which is far wider than the      *)
(* Duration's; now from MinDate to MaxDate.                                *)

\* the largest and smallest ttl: int64 seconds
MaxTTL == 1000000
WideTTLs ==
    {-MaxTTL - 1, -(MaxDurationSec + 2), -2, TTLEntryNeverExpires,
     TTLEntryImmediatelyExpires, 1, 9, NowStart, 11, 20,
     MaxDurationSec - 3, MaxDurationSec - 1, MaxDurationSec, MaxDurationSec + 1,
     MaxDurationSec + 2, 2 * (MaxDurationSec + 1), 2 * (MaxDurationSec + 1) + 5,
     MaxDate, MaxTTL}
WideNows ==
    {MinDate, MinDate + 1, NowStart, 25, MaxDurationSec - 1, MaxDurationSec,
     MaxDurationSec + 1, MaxDurationSec + 10, MaxDate - 1, MaxDate}

NextTTL ==
    \E ttl \in WideTTLs, t \in WideNows :
        CallGetExpireTime(KC(ttl, 0, FALSE, Nil, "string", "none"), t)

SpecTTL == InitDirect /\ [][NextTTL]_vars

----------------------------------------------------------------------------
(* InMemoryStorage.Cleanup step by step, with Sets of another goroutine in *)
(* between.  Cleanup first ranges over the map and collects the full keys  *)
(* of the expired entries, then deletes them one by one; no lock is held.  *)
(* io is the Cleanup in progress: its key, its cutoff and the full keys it *)
(* has collected and not yet deleted.  A Set that meets the Cleanup at the *)
(* map is a data race, which the runtime may stop with a fatal error.      *)

InitCleanupRace ==
    /\ config = [Defaults |-> <<>>, Configs |-> EmptyMap, ConfigsNil |-> TRUE]
    /\ ignoreCtxKey = ""
    /\ store = EmptyMap
    /\ now = NowStart
    /\ call = [p \in Callers |-> IdleCall]
    /\ written = EmptyMap
    /\ ops = [calls |-> 0, cfg |-> 0, raw |-> 0, adv |-> 0]
    /\ mode = "conc"
    /\ backend = "memory"
    /\ io = NoIO

\* storage.Set(key, kc, params, value, timestamp) by another goroutine
RaceSet(key, kc, params, value, timestamp) ==
    /\ io.op # "fatal"
    /\ ops.raw < MaxSweepSets
    /\ store' = StorageSet(store, key, kc, params, value, timestamp)
    /\ ops' = [ops EXCEPT !.raw = @ + 1]
    /\ UNCHANGED <<config, ignoreCtxKey, now, call, written, mode, backend, io>>

\* fatal error: concurrent map iteration and map write / concurrent map writes
RaceFatal ==
    /\ io.op = "Cleanup"
    /\ ops.raw < MaxSweepSets
    /\ io' = [op |-> "fatal"]
    /\ UNCHANGED <<config, ignoreCtxKey, store, now, call, written, ops, mode, backend>>

\* the first loop of Cleanup: expiredKeys = the full keys of the expired entries
CleanupSelect(key, expireTime) ==
    /\ io = NoIO
    /\ store # EmptyMap
    /\ io' = [op |-> "Cleanup", key |-> key, expireTime |-> expireTime,
              expiredKeys |-> ExpiredKeys(store, key, expireTime)]
    /\ UNCHANGED <<config, ignoreCtxKey, store, now, call, written, ops, mode, backend>>

\* the second loop of Cleanup: delete(c.Store, fullkey)
CleanupDelete(fullkey) ==
    /\ io.op = "Cleanup"
    /\ fullkey \in io.expiredKeys
    /\ store' = MapDrop(store, {fullkey})
    /\ io' = [io EXCEPT !.expiredKeys = @ \ {fullkey}]
    /\ UNCHANGED <<config, ignoreCtxKey, now, call, written, ops, mode, backend>>

\* return nil
CleanupReturn ==
    /\ io.op = "Cleanup"
    /\ io.expiredKeys = {}
    /\ io' = NoIO
    /\ UNCHANGED <<config, ignoreCtxKey, store, now, call, written, ops, mode, backend>>

NextCleanupRace ==
    \/ \E params \in StorageParams, value \in StorageValues, timestamp \in StorageTimes :
           RaceSet(KeyA, CfgPlain, params, value, timestamp)
    \/ RaceFatal
    \/ \E expireTime \in StorageCutoffs : CleanupSelect(KeyA, expireTime)
    \/ \E params \in StorageParams : CleanupDelete(FullKey(KeyA, params))
    \/ CleanupReturn

SpecCleanupRace == InitCleanupRace /\ [][NextCleanupRace]_vars

----------------------------------------------------------------------------
(* Wrapped calls, Cleanup and Clear one after another under a Config that  *)
(* is never changed, with resolvers that return values of every kind: the  *)
(* values a codec gives back as they were, a struct with unexported fields *)
(* (Private) and a value no codec can marshal (Func).  io keeps the last   *)
(* Cleanup or Clear.                                                       *)

ValueKCs == {CfgFallback, CfgPlain, CfgJitter}
ValueOutcomes ==
    [val : GoodValues \cup {Private, Func}, err : {FALSE}] \cup [val : {Zero}, err : {TRUE}]

InitValues ==
    /\ config \in {[Defaults |-> <<CfgPlain>>, Configs |-> [k \in {KeyA} |-> kc],
                    ConfigsNil |-> FALSE] : kc \in ValueKCs}
    /\ ignoreCtxKey = ""
    /\ store = EmptyMap
    /\ now = NowStart
    /\ call = [p \in Callers |-> IdleCall]
    /\ written = EmptyMap
    /\ ops = [calls |-> 0, cfg |-> 0, raw |-> 0, adv |-> 0]
    /\ mode = "seq"
    /\ backend = "memory"
    /\ io = NoIO

\* cache.Clear()
CallClear ==
    /\ Quiet
    /\ store # EmptyMap
    /\ store' = EmptyMap
    /\ written' = EmptyMap
    /\ io' = [op |-> "Clear", t |-> now, before |-> store]
    /\ UNCHANGED <<config, ignoreCtxKey, now, call, ops, mode, backend>>

NextValues ==
    \/ \E p \in Callers, key \in Keys, ignoreCache \in BOOLEAN :
           StartCall(p, "Cache", key, "p1", ignoreCache, NoCtx, MaxValueCalls)
    \/ \E p \in Callers, key \in Keys :
           StartCall(p, "CacheWithContext", key, "p1", FALSE, NoCtx, MaxValueCalls)
    \/ \E p \in Callers : Probe(p, FALSE)
    \/ \E p \in Callers, outcome \in ValueOutcomes : Resolve(p, outcome)
    \/ \E p \in Callers : Fallback(p, FALSE)
    \/ \E p \in Callers : SetResult(p, FALSE)
    \/ \E p \in Callers : Finish(p)
    \/ Tick
    \/ CallCleanup
    \/ CallClear

SpecValues == InitValues /\ [][NextValues]_vars

TypeOK ==
    /\ now \in NowStart .. MaxNow
    /\ \A p \in Callers : call[p].pc \in {"idle", "probe", "resolve", "fallback", "set", "done"}
    /\ DOMAIN written \subseteq DOMAIN store

----------------------------------------------------------------------------
(* Properties of the wrapped call *)

Done(p) == call[p].pc = "done"

\* the full key of the entry the call of c is about
FK(c) == FullKey(c.key, c.paramStr)

\* the store holds, for the call c, an entry that an earlier wrapped call wrote
\* under the KeyConfig c still uses
WroteEarlier(st, c) ==
    /\ FK(c) \in DOMAIN st
    /\ FK(c) \in DOMAIN written
    /\ written[FK(c)].kc = c.kc

\* the call c stored its own result v under its KeyConfig
StoredOwn(c, v) ==
    /\ FK(c) \in DOMAIN store
    /\ store[FK(c)].Data.val = v
    /\ store[FK(c)].CompressionType = GetBodyCompression(c.kc)
    /\ written[FK(c)] = [val |-> v, kc |-> c.kc]

\* C1: for a key with ttl > 0, once a wrapped call has stored its result for
\* (key, params), a later call with the same key, params and KeyConfig and
\* ignoreCache = false whose probe reads the store (no backend failure) while
\* timestamp >= now - ttl returns the stored value with a nil error and does
\* not invoke the resolver.
C1_FreshHitSkipsResolver ==
    [][\A p \in Callers :
          (/\ call[p].pc = "probe"
           /\ call'[p].pc # "probe"
           /\ call'[p].probe # "StorageErr"
           /\ call[p].kc.TTL > 0
           /\ WroteEarlier(store, call[p])
           /\ store[FK(call[p])].Timestamp >= now - call[p].kc.TTL)
          => (/\ call'[p].pc = "done"
              /\ call'[p].err = NoErr
              /\ call'[p].result = written[FK(call[p])].val
              /\ call'[p].resolverCalls = 0)]_vars

C1_Witness ==
    \E p \in Callers :
        /\ Done(p)
        /\ ~call[p].ignore
        /\ call[p].kc.TTL > 0
        /\ call[p].probe = "hit"
        /\ call[p].resolverCalls = 0
        /\ WroteEarlier(store, call[p])
        /\ call[p].result = written[FK(call[p])].val
        /\ call[p].result \in GoodValues
        /\ now > NowStart

\* C2: with ignoreCache = true a wrapped call makes no cache read and invokes
\* the resolver exactly once, also when a fresh entry exists; when the resolver
\* succeeds and the Set is carried out (ttl # 0, nil error), the entry stored
\* for (key, params) is the new result.
C2_IgnoreCacheAlwaysResolves ==
    \A p \in Callers :
        (Done(p) /\ call[p].ignore /\ call[p].err # ParamsErr)
        => (/\ call[p].probe = "none"
            /\ call[p].gets = 0
            /\ call[p].resolverCalls = 1
            /\ (~call[p].resolved.err /\ call[p].err = NoErr
                    /\ call[p].kc.TTL # TTLEntryImmediatelyExpires)
               => (/\ call[p].result = call[p].resolved.val
                   /\ StoredOwn(call[p], call[p].resolved.val)))

C2_Witness ==
    \E p \in Callers :
        /\ Done(p)
        /\ call[p].ignore
        /\ call[p].resolverCalls = 1
        /\ call[p].err = NoErr
        /\ FK(call[p]) \in DOMAIN call[p].store0
        /\ call[p].store0[FK(call[p])].CompressionType = GetBodyCompression(call[p].kc)
        /\ call[p].store0[FK(call[p])].Timestamp >= now - call[p].kc.TTL
        /\ call[p].kc.TTL > 0
        /\ call[p].store0[FK(call[p])].Data.val # call[p].resolved.val
        /\ StoredOwn(call[p], call[p].resolved.val)

\* C3: for a key with fallback_to_expired = true, when an earlier wrapped call
\* stored a value for (key, params), the entry is expired at the probe, and the
\* resolver fails, a call with ignoreCache = false (Cache or CacheWithContext,
\* no backend failure) returns the stored value with a nil error.
C3_StaleFallback ==
    \A p \in Callers :
        (/\ Done(p)
         /\ ~call[p].ignore
         /\ call[p].kc.FallbackToExpired
         /\ call[p].kc.TTL > 0
         /\ call[p].resolved.err
         /\ WroteEarlier(call[p].store0, call[p])
         /\ call[p].gets >= 1
         /\ call[p].store0[FK(call[p])].Timestamp < call[p].probeNow - call[p].kc.TTL
         /\ call[p].probe # "StorageErr"
         /\ call[p].fallback # "StorageErr")
        => (/\ call[p].err = NoErr
            /\ call[p].result = written[FK(call[p])].val
            /\ call[p].resolverCalls = 1)

C3_Witness ==
    \E p \in Callers :
        /\ Done(p)
        /\ call[p].variant = "CacheWithContext"
        /\ call[p].kc.FallbackToExpired
        /\ call[p].probe = "expired"
        /\ call[p].resolved.err
        /\ call[p].fallback = "hit"
        /\ call[p].err = NoErr
        /\ call[p].result \in GoodValues
        /\ WroteEarlier(store, call[p])
        /\ call[p].result = written[FK(call[p])].val

\* C4: when the resolver fails and stale fallback does not apply
\* (fallback_to_expired = false, or the probe did not report an expired
\* entry), the wrapped call (Wrap or WrapWithContext) returns a non-nil error
\* that wraps the resolver's error; no second cache read is made and the value
\* returned is the resolver's, not an expired entry's.
C4_ResolverErrorPropagates ==
    \A p \in Callers :
        (/\ Done(p)
         /\ call[p].resolved.err
         /\ (~call[p].kc.FallbackToExpired) \/ call[p].probe # "expired")
        => (/\ call[p].err.kind = "retrieve"
            /\ call[p].err.wraps = "ResolverErr"
            /\ call[p].fallback = "none"
            /\ call[p].result = call[p].resolved.val
            /\ call[p].resolverCalls = 1)

\* C5: when the params cannot be rendered by the key's ParamCodec, the call
\* returns a non-nil error without invoking the resolver and without a storage
\* Get or Set, and the store is as it was before the call.
C5_ParamErrorTerminates ==
    \A p \in Callers :
        (call[p].pc # "idle" /\ call[p].params = BadParams)
        => (/\ Done(p)
            /\ call[p].err = ParamsErr
            /\ call[p].resolverCalls = 0
            /\ call[p].gets = 0
            /\ call[p].sets = 0
            /\ store = call[p].store0)

C5_Witness ==
    \E p \in Callers :
        /\ Done(p)
        /\ call[p].params = BadParams
        /\ call[p].err = ParamsErr
        /\ store # EmptyMap
        /\ store = call[p].store0

\* a cache read failed with something other than not-found or expired
ReadFailures == {"StorageErr", "decompress", "unmarshal"}

\* C6: with InMemoryStorage (no backend failure), when the entry stored for
\* (key, params) carries a compression tag other than the configured one, a
\* call with ignoreCache = false reads not-found and invokes the resolver; when
\* the resolver returns an encodable value and ttl # 0, the call ends with a
\* nil error and the store holds, under the same full key and with no entry
\* added, the resolver's value with the new tag.
C6_TagMismatchIsMiss ==
    \A p \in Callers :
        (/\ Done(p)
         /\ ~call[p].ignore
         /\ call[p].err # ParamsErr
         /\ FK(call[p]) \in DOMAIN call[p].store0
         /\ call[p].store0[FK(call[p])].CompressionType # GetBodyCompression(call[p].kc)
         /\ call[p].probe # "StorageErr"
         /\ ~call[p].setFailed)
        => (/\ call[p].probe = "notfound"
            /\ call[p].resolverCalls = 1
            /\ (~call[p].resolved.err /\ call[p].resolved.val # Func
                    /\ call[p].kc.TTL # TTLEntryImmediatelyExpires)
               => (/\ call[p].err = NoErr
                   /\ call[p].result = call[p].resolved.val
                   /\ StoredOwn(call[p], call[p].resolved.val)
                   /\ DOMAIN store = DOMAIN call[p].store0))

C6_Witness ==
    \E p \in Callers :
        /\ Done(p)
        /\ ~call[p].ignore
        /\ FK(call[p]) \in DOMAIN call[p].store0
        /\ call[p].store0[FK(call[p])].CompressionType = "gzip"
        /\ call[p].store0[FK(call[p])].Data.z = "gzip"
        /\ GetBodyCompression(call[p].kc) = "none"
        /\ call[p].probe = "notfound"
        /\ call[p].err = NoErr
        /\ StoredOwn(call[p], call[p].resolved.val)
        /\ StorageEntryCount(store) = 1

\* C7: when the first cache read fails with a backend error, a decompression
\* failure or a body decode failure, the call goes on as on a miss: the
\* resolver is invoked once, no stale fallback is made, the value returned is
\* the resolver's; when the resolver's value is encodable and the backend Set
\* does not fail the error is nil and (ttl # 0) the entry is overwritten.
C7_ReadFailureIsMiss ==
    \A p \in Callers :
        (Done(p) /\ call[p].probe \in ReadFailures)
        => (/\ call[p].resolverCalls = 1
            /\ call[p].fallback = "none"
            /\ call[p].result = call[p].resolved.val
            /\ (~call[p].resolved.err /\ call[p].resolved.val # Func /\ ~call[p].setFailed)
               => (/\ call[p].err = NoErr
                   /\ call[p].kc.TTL # TTLEntryImmediatelyExpires
                      => StoredOwn(call[p], call[p].resolved.val)))

C7_Witness ==
    \E p \in Callers :
        /\ Done(p)
        /\ call[p].probe = "decompress"
        /\ call[p].err = NoErr
        /\ call[p].result = "v1"
        /\ call[p].store0[FK(call[p])].Data.val = "v2"
        /\ StoredOwn(call[p], "v1")

\* C8: when the resolver succeeds and the storage Set fails, the call returns
\* the resolver's value (not the zero value, not a cached one) with a non-nil
\* error that wraps the storage error.
C8_SetFailureKeepsValue ==
    \A p \in Callers :
        (Done(p) /\ call[p].setFailed)
        => (/\ ~call[p].resolved.err
            /\ call[p].result = call[p].resolved.val
            /\ call[p].result # Zero
            /\ call[p].err = SetCacheErr("StorageErr"))

C8_Witness ==
    \E p \in Callers :
        /\ Done(p)
        /\ call[p].setFailed
        /\ call[p].probe = "expired"
        /\ WroteEarlier(store, call[p])
        /\ written[FK(call[p])].val # call[p].result
        /\ call[p].result \in GoodValues
        /\ call[p].err = SetCacheErr("StorageErr")

\* C9: when the resolver's result cannot be marshalled by the key's BodyCodec
\* (ttl # 0), the call returns the resolver's value with a non-nil error,
\* storage Set is not called and the store is as it was before the call.
C9_BodyEncodeError ==
    \A p \in Callers :
        (/\ Done(p)
         /\ ~call[p].resolved.err
         /\ call[p].resolverCalls = 1
         /\ call[p].resolved.val = Func
         /\ call[p].kc.TTL # TTLEntryImmediatelyExpires)
        => (/\ call[p].result = Func
            /\ call[p].err = SetCacheErr("MarshalErr")
            /\ call[p].sets = 0
            /\ ~call[p].setFailed
            /\ store = call[p].store0)

C9_Witness ==
    \E p \in Callers :
        /\ Done(p)
        /\ call[p].resolved.val = Func
        /\ call[p].kc.TTL > 0
        /\ call[p].result = Func
        /\ call[p].err = SetCacheErr("MarshalErr")
        /\ store # EmptyMap
        /\ store = call[p].store0

\* C10: a wrapped call under a KeyConfig with ttl == 0 never writes to
\* storage: at every point of the call, for every params and ignore flag,
\* storage Set has not been called and the store and its entry count are
\* those from before the call.
C10_TTLZeroNeverWrites ==
    \A p \in Callers :
        (call[p].pc # "idle" /\ call[p].kc.TTL = TTLEntryImmediatelyExpires)
        => (/\ call[p].sets = 0
            /\ store = call[p].store0
            /\ StorageEntryCount(store) = StorageEntryCount(call[p].store0))

C10_Witness ==
    \E p \in Callers :
        /\ Done(p)
        /\ call[p].kc.TTL = TTLEntryImmediatelyExpires
        /\ ~call[p].resolved.err
        /\ call[p].resolverCalls = 1
        /\ call[p].result \in GoodValues
        /\ call[p].err = NoErr
        /\ FK(call[p]) \in DOMAIN store
        /\ store = call[p].store0

----------------------------------------------------------------------------
(* Properties of the expiry policy as the wrapped call applies it *)

\* C11: for a key whose config has ttl == 0 a cache read never reports a fresh
\* hit, whatever entry the store holds and whatever its timestamp: every call
\* that renders its params invokes the resolver once, and a call returns a
\* cached value with a nil error only through the stale fallback after its
\* resolver failed.
C11_TTLZeroNeverFresh ==
    \A p \in Callers :
        (call[p].pc # "idle" /\ call[p].kc.TTL = TTLEntryImmediatelyExpires)
        => (/\ call[p].probe # "hit"
            /\ (Done(p) /\ call[p].err # ParamsErr) => call[p].resolverCalls = 1
            /\ (Done(p) /\ call[p].err = NoErr)
               => \/ (~call[p].resolved.err) /\ call[p].result = call[p].resolved.val
                  \/ call[p].resolved.err /\ call[p].fallback = "hit")

C11_Witness ==
    \E p \in Callers :
        /\ Done(p)
        /\ call[p].kc.TTL = TTLEntryImmediatelyExpires
        /\ ~call[p].ignore
        /\ FK(call[p]) \in DOMAIN call[p].store0
        /\ call[p].store0[FK(call[p])].CompressionType = GetBodyCompression(call[p].kc)
        /\ call[p].store0[FK(call[p])].Timestamp > call[p].probeNow
        /\ call[p].probe = "expired"
        /\ call[p].resolverCalls = 1

\* whether the last direct call was a cache.Get, honouring expiry, of an entry
\* a cache.Set stored for the same key, KeyConfig and params
GotAfterSet ==
    /\ io.op = "Get"
    /\ ~io.ignore
    /\ FullKey(io.key, io.params) \in DOMAIN store

C14_TimestampInJitterWindow ==
    /\ io.op = "GetTimestamp"
       => (/\ io.kc.TTLJitter > 0
              => (io.t <= io.out /\ io.out < io.t + io.kc.TTLJitter)
           /\ io.kc.TTLJitter <= 0 => io.out = io.t)
    /\ io.op = "GetExpireTime"
       => \A j \in PolicyJitters :
              GetExpireTime([io.kc EXCEPT !.TTLJitter = j], io.t) = io.out

\* the whole seconds from MinDate to t, at most the largest Duration
Elapsed(t) == IF t - MinDate > MaxDurationSec THEN MaxDurationSec ELSE t - MinDate

\* C15 as stated: GetExpireTime(config, now) is MaxDate when ttl == 0, MinDate
\* when ttl < 0 or ttl > TTLMax, and now - ttl seconds for every other ttl > 0.
C15_ExpireTime_AsStated ==
    io.op = "GetExpireTime"
    => io.out = (IF io.kc.TTL = 0 THEN MaxDate
                 ELSE IF io.kc.TTL < 0 \/ io.kc.TTL > TTLMax THEN MinDate
                 ELSE io.t - io.kc.TTL)

\* C15, amended: GetExpireTime(config, now) is MaxDate when ttl == 0; MinDate
\* when ttl < 0, when ttl > TTLMax, and when ttl is at least the whole seconds
\* elapsed from MinDate to now (counted up to the largest Duration); and
\* now - ttl seconds for every other ttl > 0.
C15_ExpireTime ==
    io.op = "GetExpireTime"
    => io.out = (IF io.kc.TTL = 0 THEN MaxDate
                 ELSE IF io.kc.TTL < 0 \/ io.kc.TTL > TTLMax THEN MinDate
                 ELSE IF io.kc.TTL >= Elapsed(io.t) THEN MinDate
                 ELSE io.t - io.kc.TTL)

C15_Witness ==
    /\ io.op = "GetExpireTime"
    /\ io.kc.TTL > 0
    /\ io.kc.TTL <= TTLMax
    /\ io.t - io.kc.TTL < MinDate
    /\ io.out = MinDate

----------------------------------------------------------------------------
(* Properties of the storage backends *)

\* the entries the store holds for (key, params) under the compression tag of kc
Matching(key, kc, params) ==
    {id \in DOMAIN store :
        /\ id = EntryId(backend, key, GetBodyCompression(kc), params)
        /\ backend = "memory" => store[id].CompressionType = GetBodyCompression(kc)}

\* C16: Storage Get(key, config, params, cutoff), on either backend, answers
\* NotFound when the store holds no entry for (key, params) under the
\* configured compression tag (whatever the age of an entry under another
\* tag), Expired when it holds one whose timestamp is before the cutoff, and
\* otherwise the stored bytes, also when the timestamp equals the cutoff.
C16_GetClassification ==
    io.op = "Get" =>
        LET m == Matching(io.key, io.kc, io.params) IN
        IF m = {} THEN ~io.out.ok /\ io.out.v = "ErrEntryNotFound"
        ELSE \A id \in m :
                IF store[id].Timestamp < io.expireTime
                THEN ~io.out.ok /\ io.out.v = "ErrEntryExpired"
                ELSE io.out.ok /\ io.out.v = store[id].Data

C16_Witness ==
    /\ io.op = "Get"
    /\ \E id \in Matching(io.key, io.kc, io.params) :
          /\ store[id].Timestamp = io.expireTime
          /\ io.out.ok /\ io.out.v = store[id].Data
    /\ \E id \in DOMAIN store : store[id].Timestamp < io.expireTime

\* C17: with InMemoryStorage, after any sequence of Set calls (and Cleanup or
\* Clear calls between them) the store holds one entry for each (key, params)
\* pair that was Set and not deleted since, no other entry, and the bytes,
\* timestamp and compression tag of that entry are those of the last Set for
\* the pair, also when that Set carried an older timestamp than the entry it
\* replaced.
C17_SetIsUpsert ==
    backend = "memory" =>
        /\ \A pr \in DOMAIN written :
              /\ FullKey(pr[1], pr[2]) \in DOMAIN store
              /\ store[FullKey(pr[1], pr[2])] = written[pr]
        /\ Cardinality(DOMAIN store) = Cardinality(DOMAIN written)

C17_Witness ==
    /\ backend = "memory"
    /\ io.op = "Set"
    /\ io.replaced # <<>>
    /\ LET entry == store[FullKey(io.key, io.params)] IN
          /\ io.replaced[1].Timestamp > entry.Timestamp
          /\ io.replaced[1].Data # entry.Data
          /\ io.replaced[1].CompressionType # entry.CompressionType
          /\ entry = written[<<io.key, io.params>>]

\* the entries of st that belong to key: those Set under that very key
KeyEntries(st, key) ==
    IF backend = "memory"
    THEN {id \in DOMAIN st : \E pr \in DOMAIN written :
                                pr[1] = key /\ id = FullKey(pr[1], pr[2])}
    ELSE {id \in DOMAIN st : id.dir = key}

ExpiredOfKey(st, key, cutoff) ==
    {id \in KeyEntries(st, key) : st[id].Timestamp < cutoff}

\* C18: Storage Cleanup(key, config, cutoff) deletes exactly the entries Set
\* under that key whose timestamp is before the cutoff, and
\* ExpiredEntryCount(key, config, cutoff) counts exactly those: the entries of
\* any other key, such as "a:b" beside "a", and the entries of the key that
\* are not older than the cutoff are neither deleted nor counted.
C18_CleanupScopedPerKey ==
    [][/\ io'.op = "Cleanup" =>
              store' = MapDrop(store, ExpiredOfKey(store, io'.key, io'.expireTime))
       /\ io'.op = "ExpiredEntryCount" =>
              io'.out = Cardinality(ExpiredOfKey(store, io'.key, io'.expireTime))]_vars

----------------------------------------------------------------------------
(* What the wrapped call leaves in the store *)

\* C19: a cache read never removes or alters an entry: the probe and the
\* fallback read of a wrapped call leave the store as it was, whatever they
\* return, so an expired entry stays in the store and in EntryCount; an entry
\* leaves the store only in a Cleanup or a Clear; and a call that ends in a
\* fresh hit has left the store, the timestamp of its entry included, as it
\* was when the call began.
C19_ReadsNeverEvict ==
    [][/\ \A p \in Callers :
              (call[p].pc \in {"probe", "fallback"} /\ call'[p] # call[p])
              => (/\ store' = store
                  /\ StorageEntryCount(store') = StorageEntryCount(store))
       /\ (\E fk \in DOMAIN store : fk \notin DOMAIN store') => (Cleanup \/ Clear)
       /\ \A p \in Callers :
              (call[p].pc = "probe" /\ call'[p].pc = "done" /\ call'[p].probe = "hit")
              => store' = call'[p].store0]_vars

C19_Witness ==
    \E p \in Callers :
        /\ Done(p)
        /\ call[p].probe = "expired"
        /\ call[p].resolved.err
        /\ call[p].fallback = "none"
        /\ call[p].err # NoErr
        /\ FK(call[p]) \in DOMAIN store
        /\ store[FK(call[p])].Timestamp < GetExpireTime(call[p].kc, call[p].probeNow)
        /\ StorageEntryCount(store) = 1

\* C20: a wrapped call whose resolver fails leaves the store as it was when
\* the call began, whether it returns the error or serves a stale value: it
\* calls no storage Set, an empty store stays empty, and after a stale
\* fallback the entry served keeps its bytes and timestamp and is still among
\* the entries that storage ExpiredEntryCount counts for the key.
C20_FailedResolverLeavesStore ==
    \A p \in Callers :
        (Done(p) /\ call[p].resolved.err)
        => (/\ call[p].sets = 0
            /\ store = call[p].store0
            /\ StorageEntryCount(call[p].store0) = 0 => StorageEntryCount(store) = 0
            /\ call[p].fallback = "hit" =>
                  /\ FK(call[p]) \in DOMAIN store
                  /\ store[FK(call[p])] = call[p].store0[FK(call[p])]
                  /\ FK(call[p]) \in ExpiredKeys(store, call[p].key,
                                                 GetExpireTime(call[p].kc, now))
                  /\ StorageExpiredEntryCount(store, call[p].key, call[p].kc,
                                              GetExpireTime(call[p].kc, now)) >= 1)

C20_Witness ==
    \E p \in Callers :
        /\ Done(p)
        /\ call[p].resolved.err
        /\ call[p].fallback = "hit"
        /\ call[p].err = NoErr
        /\ now > call[p].probeNow
        /\ store = call[p].store0
        /\ FK(call[p]) \in ExpiredKeys(store, call[p].key, GetExpireTime(call[p].kc, now))

----------------------------------------------------------------------------
(* Keys that never expire *)

NeverExpires(kc) == kc.TTL < 0 \/ kc.TTL > TTLMax

\* C12: for a key whose config has ttl < 0 (any negative value) or ttl >
\* TTLMax, an entry the engine wrote never reports as expired however far the
\* clock advances: every later probe of the entry (same KeyConfig,
\* ignoreCache = false) is a fresh hit, Cleanup never deletes the entry, and
\* while the store holds only such entries CacheFunk.ExpiredEntryCount is 0.
C12_NegativeTTLNeverExpires ==
    [][/\ \A p \in Callers :
              (/\ call[p].pc = "probe"
               /\ call'[p] # call[p]
               /\ NeverExpires(call[p].kc)
               /\ WroteEarlier(store, call[p]))
              => call'[p].probe = "hit"
       /\ \A fk \in DOMAIN written :
              (NeverExpires(written[fk].kc) /\ fk \in DOMAIN store)
              => fk \in DOMAIN store'
       /\ (\A fk \in DOMAIN store :
               fk \in DOMAIN written /\ NeverExpires(written[fk].kc))
          => CacheFunkExpiredEntryCount(store, config, now) = 0]_vars

----------------------------------------------------------------------------
(* Entries of different keys and params *)

\* the (key, params) pairs the calls are made with, and the full key of each
CalledPairs == Keys \X PairParams

PairKey(pr) ==
    FullKey(pr[1], ParamMarshal(GetParamCodec(ConfigGet(config, pr[1])), pr[2]).v)

\* C21: entries are independent per (key, params): two different pairs have
\* different full keys; a call for a pair without an entry invokes the
\* resolver, whatever entries other pairs have; a call that stores its result
\* adds or replaces the entry of its own pair and leaves every other entry as
\* it was; a call served from the cache returns the value stored for its own
\* pair; and the entry count is the number of pairs stored.
C21_EntriesPerKeyAndParams ==
    /\ \A pr1, pr2 \in CalledPairs : PairKey(pr1) = PairKey(pr2) => pr1 = pr2
    /\ StorageEntryCount(store) =
           Cardinality({pr \in CalledPairs : PairKey(pr) \in DOMAIN written})
    /\ \A p \in Callers :
          Done(p) =>
             LET c == call[p]
                 own == PairKey(<<c.key, c.params>>)
             IN  /\ own \notin DOMAIN c.store0 =>
                        (c.probe = "notfound" /\ c.resolverCalls = 1)
                 /\ c.sets = 1 =>
                        /\ DOMAIN store = DOMAIN c.store0 \cup {own}
                        /\ \A fk \in DOMAIN c.store0 \ {own} : store[fk] = c.store0[fk]
                        /\ store[own].Data.val = c.resolved.val
                 /\ c.resolverCalls = 0 =>
                        /\ own \in DOMAIN c.store0
                        /\ c.result = c.store0[own].Data.val
                        /\ c.result = written[own].val

C21_Witness ==
    \E p \in Callers :
        /\ Done(p)
        /\ call[p].sets = 1
        /\ StorageEntryCount(call[p].store0) = 2
        /\ StorageEntryCount(store) = 3
        /\ \A params \in PairParams : PairKey(<<KeyA, params>>) \in DOMAIN store
        /\ \E fk \in DOMAIN call[p].store0 :
              store[fk].Data.val # call[p].resolved.val

----------------------------------------------------------------------------
(* Properties of Config *)

\* C22: Config.Get(key) always returns a KeyConfig: the one mapped to key
\* when there is one, otherwise Defaults when it is set, otherwise the
\* built-in default (TTL 3600, jitter 300, no stale fallback, JSON body codec,
\* zstd compression, JSON param codec), also for a zero-value Config.
C22_ConfigGetTotal ==
    io.op = "ConfigGet" =>
        LET c == io.before IN
        /\ DOMAIN io.out = {"TTL", "TTLJitter", "FallbackToExpired",
                            "BodyCompression", "BodyCodec", "ParamCodec"}
        /\ IF ~c.ConfigsNil /\ io.key \in DOMAIN c.Configs
           THEN io.out = c.Configs[io.key]
           ELSE IF c.Defaults # <<>>
           THEN io.out = c.Defaults[1]
           ELSE io.out = [TTL |-> 3600, TTLJitter |-> 300, FallbackToExpired |-> FALSE,
                          BodyCompression |-> "zstd", BodyCodec |-> "json",
                          ParamCodec |-> "json"]

C22_Witness ==
    /\ io.op = "ConfigGet"
    /\ io.before = [Defaults |-> <<>>, Configs |-> EmptyMap, ConfigsNil |-> TRUE]
    /\ io.out.TTL = 3600
    /\ io.out.TTLJitter = 300

\* C23: Config.Get(key) has no side effect: after the call the Config's
\* Defaults and Configs are what they were before it, also when the Configs
\* mapping was unset, and an unknown key has not been inserted.
C23_ConfigGetReadOnly ==
    io.op = "ConfigGet" =>
        /\ config = io.before
        /\ io.key \notin DOMAIN io.before.Configs => io.key \notin DOMAIN config.Configs

\* C24: marshalling a Config to JSON and unmarshalling the result gives an
\* equal Config: Defaults and Configs are set or unset as before, every
\* KeyConfig keeps its ttl, ttl_jitter and fallback_to_expired, every set
\* strategy is found again by its name and every unset strategy stays unset.
C24_ConfigRoundTrip ==
    io.op = "RoundTrip" =>
        /\ io.out = io.before
        /\ io.out.ConfigsNil = io.before.ConfigsNil
        /\ DOMAIN io.out.Configs = DOMAIN io.before.Configs
        /\ \A k \in DOMAIN io.before.Configs :
              LET kc == io.before.Configs[k]
                  back == io.out.Configs[k]
              IN  /\ back.TTL = kc.TTL
                  /\ back.TTLJitter = kc.TTLJitter
                  /\ back.FallbackToExpired = kc.FallbackToExpired
                  /\ back.ParamCodec = kc.ParamCodec
                  /\ back.BodyCodec = kc.BodyCodec
                  /\ back.BodyCompression = kc.BodyCompression

C24_Witness ==
    /\ io.op = "RoundTrip"
    /\ io.before.Defaults # <<>>
    /\ DOMAIN io.before.Configs = Keys
    /\ io.before.Configs[KeyA].ParamCodec = "json+base64"
    /\ io.before.Configs[KeyAB].ParamCodec = Nil
    /\ io.before.Configs[KeyAB].BodyCompression = "none"
    /\ io.out = io.before

----------------------------------------------------------------------------
(* Properties of the body codecs and compressions *)

\* C25: for every registered body codec, every registered compression and
\* every value v the codec encodes, decoding the encoded bytes with the same
\* codec and compression (decompress, then unmarshal) succeeds and yields a
\* value equal to v.
C25_CodecRoundTrip ==
    (io.op = "Decode" /\ io.with = <<io.codec, io.compression>>)
    => (io.out.ok /\ io.out.v = io.v)

----------------------------------------------------------------------------
(* Properties of the two variants of the wrapped call *)

\* C26: in CacheWithContext the ignore flag is the boolean the context holds
\* under the engine's IgnoreCtxKey, "ignoreCache" when that is unset; when the
\* context holds nothing under that key, or a value that is not a boolean, the
\* flag is false; and the cache is probed exactly when the flag is false.
C26_IgnoreFlagFromContext ==
    \A p \in Callers :
        (call[p].pc # "idle" /\ call[p].variant = "CacheWithContext")
        => LET c == call[p]
               ctxKey == IF ignoreCtxKey = "" THEN "ignoreCache" ELSE ignoreCtxKey
               flag == IF c.ctx.key = ctxKey /\ c.ctx.val \in {"true", "false"}
                       THEN c.ctx.val = "true"
                       ELSE FALSE
           IN  /\ c.ignore = flag
               /\ Done(p) => (c.gets >= 1 <=> ~flag)
               /\ (Done(p) /\ flag) => c.resolverCalls = 1

C26_Witness ==
    \E p \in Callers :
        /\ Done(p)
        /\ ignoreCtxKey = ""
        /\ call[p].ctx = Ctx("ignoreCache", "true")
        /\ call[p].ignore
        /\ call[p].probe = "none"
        /\ call[p].resolverCalls = 1
        /\ FK(call[p]) \in DOMAIN call[p].store0

\* C27: Cache and CacheWithContext run the same algorithm: with the same store,
\* configuration, parameters, ignore flag and resolver outcome, both return
\* the same value and the same kind of error and leave the store the same.
C27_VariantsAgree ==
    (io.op = "twin" /\ Done("c2"))
    => /\ call["c2"].result = io.first.result
       /\ call["c2"].err = io.first.err
       /\ store = io.after

----------------------------------------------------------------------------
(* Properties of concurrent calls *)

\* the call found nothing stored and its resolver returned a value
ColdAndResolved(c) ==
    /\ c.probe = "notfound"
    /\ c.resolverCalls = 1
    /\ ~c.resolved.err
    /\ c.resolved.val \in GoodValues

\* C28: there is no request coalescing: concurrent wrapped calls that race on
\* the same (key, params) with a cold cache all invoke the resolver and all
\* attempt a Set; afterwards the store holds a single entry for (key, params)
\* whose value is that of the last Set to complete, and each caller receives
\* its own resolver's value.
C28_NoCoalescing ==
    \A p, q \in Callers :
        LET cp == call[p]
            cq == call[q]
        IN  (/\ p # q
             /\ cp.pc # "idle" /\ cq.pc # "idle"
             /\ FK(cp) = FK(cq)
             /\ ColdAndResolved(cp) /\ ColdAndResolved(cq))
            => /\ cp.pc \in {"set", "done"}
               /\ Done(p) => (cp.sets = 1 /\ cp.result = cp.resolved.val
                              /\ cp.err = NoErr)
               /\ (Done(p) /\ Done(q))
                  => /\ FK(cp) \in DOMAIN store
                     /\ written[FK(cp)].val \in {cp.result, cq.result}
                     /\ store[FK(cp)].Data
                            = CacheFunkSetData(cp.kc, written[FK(cp)].val).v

----------------------------------------------------------------------------
(* Properties of the errors a wrapped call returns *)

\* what a failed read of the cache ends with
ReadErrors ==
    {"ErrEntryNotFound", "ErrEntryExpired", "StorageErr", "decompress", "unmarshal"}

\* C29: no wrapped call returns ErrEntryNotFound or ErrEntryExpired, bare or
\* wrapped, as its error: a read that finds nothing or finds an expired entry
\* is consumed inside the engine, and the error returned after a failed stale
\* fallback is made from the resolver's error, not from the error of the
\* fallback read.
C29_ReadErrorsStayInside ==
    \A p \in Callers :
        Done(p)
        => LET c == call[p]
           IN  /\ c.err.kind \notin {"ErrEntryNotFound", "ErrEntryExpired"}
               /\ c.err.wraps \notin {"ErrEntryNotFound", "ErrEntryExpired"}
               /\ c.fallback \notin {"none", "hit"}
                  => /\ c.resolved.err
                     /\ c.err.kind = "retrieve"
                     /\ c.err.wraps \in {"ResolverErr", "none"}
                     /\ c.variant = "Cache" => c.err.wraps = "ResolverErr"

C29_Witness ==
    \E p \in Callers :
        /\ Done(p)
        /\ call[p].probe = "expired"
        /\ call[p].resolved.err
        /\ call[p].fallback \in ReadErrors
        /\ call[p].err.kind = "retrieve"

C29_WitnessNotFound ==
    \E p \in Callers :
        /\ Done(p)
        /\ call[p].probe = "notfound"
        /\ call[p].resolved.err
        /\ call[p].err.kind = "retrieve"

----------------------------------------------------------------------------
(* Properties of the far dates *)

C30_WitnessNever ==
    /\ io.op = "GetExpireTime"
    /\ io.kc.TTL = -2
    /\ io.t = NowStart
    /\ io.out = MinDate

----------------------------------------------------------------------------
(* Properties of the order of the steps of a call *)

\* C31: every wrapped call goes from not checked, through the outcome of the
\* probe and the resolver, to stored or store failed: the resolver is invoked
\* at most once per call and only after the probe, when one is made, returned
\* an outcome that is not a fresh hit; Set is called at most once per call and
\* only after the resolver returned successfully; a second Get, ignoring
\* expiry, happens only after the resolver failed.
C31_StepOrder ==
    [][\A p \in Callers :
          LET c == call[p]
              d == call'[p]
          IN  /\ d.resolverCalls <= 1 /\ d.sets <= 1 /\ d.gets <= 2
              /\ d.resolverCalls > c.resolverCalls
                 => /\ c.sets = 0 /\ c.fallback = "none"
                    /\ \/ c.ignore /\ c.gets = 0 /\ c.probe = "none"
                       \/ ~c.ignore /\ c.gets = 1 /\ c.probe \notin {"none", "hit"}
              /\ d.sets > c.sets
                 => c.resolverCalls = 1 /\ ~c.resolved.err /\ c.fallback = "none"
              /\ d.gets > c.gets
                 => \/ c.gets = 0 /\ c.resolverCalls = 0 /\ d.probe # "none"
                    \/ /\ c.gets = 1 /\ c.resolverCalls = 1 /\ c.resolved.err
                       /\ c.sets = 0 /\ d.fallback # "none"]_vars

C31_Witness ==
    \E p \in Callers :
        /\ Done(p)
        /\ call[p].probe = "expired"
        /\ call[p].resolverCalls = 1
        /\ call[p].resolved.err
        /\ call[p].fallback = "hit"
        /\ call[p].gets = 2
        /\ call[p].sets = 0

C31_WitnessStored ==
    \E p \in Callers :
        /\ Done(p)
        /\ call[p].probe = "notfound"
        /\ call[p].resolverCalls = 1
        /\ call[p].sets = 1
        /\ call[p].err = NoErr

----------------------------------------------------------------------------
(* Properties of the stale fallback *)

\* C32: stale fallback requires that the call's own probe reported an expired
\* hit: when the probe was skipped or reported not found, a compression tag
\* that does not match, or a read error, a failure of the resolver is
\* returned as an error, with no second read, even though FallbackToExpired is
\* true and an entry for (key, params) is in the store.
C32_FallbackNeedsExpiredHit ==
    \A p \in Callers :
        (Done(p) /\ call[p].resolverCalls = 1 /\ call[p].resolved.err
                 /\ call[p].probe # "expired")
        => /\ call[p].fallback = "none"
           /\ call[p].gets <= 1
           /\ call[p].err.kind = "retrieve"

\* the probe was skipped over a stored entry
C32_Witness ==
    \E p \in Callers :
        /\ Done(p)
        /\ call[p].ignore
        /\ call[p].kc.FallbackToExpired
        /\ FK(call[p]) \in DOMAIN store
        /\ call[p].resolved.err
        /\ call[p].err.kind = "retrieve"

\* the probe met an entry stored under another compression
C32_WitnessTag ==
    \E p \in Callers :
        /\ Done(p)
        /\ call[p].probe = "notfound"
        /\ call[p].kc.FallbackToExpired
        /\ FK(call[p]) \in DOMAIN store
        /\ store[FK(call[p])].CompressionType # GetBodyCompression(call[p].kc)
        /\ call[p].resolved.err
        /\ call[p].err.kind = "retrieve"

\* the probe failed to read a stored entry
C32_WitnessReadError ==
    \E p \in Callers :
        /\ Done(p)
        /\ call[p].probe \notin {"none", "hit", "expired", "notfound"}
        /\ call[p].kc.FallbackToExpired
        /\ FK(call[p]) \in DOMAIN store
        /\ call[p].resolved.err
        /\ call[p].err.kind = "retrieve"

\* the call of p ends in this step, after an expired hit and a failed resolver
EndsAfterExpiredAndFailure(p) ==
    /\ call[p].pc \in {"resolve", "fallback"}
    /\ call'[p].pc = "done"
    /\ call'[p].probe = "expired"
    /\ call'[p].resolved.err

\* the value the entry of the call's (key, params) decodes to under its KeyConfig
DecodedEntry(c, st) ==
    IF FK(c) \notin DOMAIN st THEN Fail("ErrEntryNotFound")
    ELSE IF st[FK(c)].CompressionType # GetBodyCompression(c.kc)
    THEN Fail("ErrEntryNotFound")
    ELSE Decode(GetBodyCodec(c.kc), GetBodyCompression(c.kc), st[FK(c)].Data)

\* C33: under any interleaving with other calls, Cleanup or Clear, a wrapped
\* call that saw an expired hit and whose resolver failed returns either a
\* value decoded from an entry that is in the store at the time of the
\* fallback read, with a nil error, or a non-nil error that wraps the
\* resolver's error; never a zero or partly decoded value with a nil error.
C33_FallbackOutcome ==
    [][\A p \in Callers :
          EndsAfterExpiredAndFailure(p)
          => LET d == call'[p]
             IN  \/ /\ d.err = NoErr
                    /\ call[p].pc = "fallback"
                    /\ DecodedEntry(d, store).ok
                    /\ d.result = DecodedEntry(d, store).v
                    /\ d.result \notin {Zero, Partial}
                 \/ /\ d.err.kind = "retrieve"
                    /\ d.err.wraps = "ResolverErr"]_vars

----------------------------------------------------------------------------
(* Properties of the KeyConfig of a call *)

\* what a probe under KeyConfig kc at time t reports of the store st
ProbeUnder(c, kc, st, t) ==
    IF FK(c) \notin DOMAIN st THEN "notfound"
    ELSE IF st[FK(c)].CompressionType # GetBodyCompression(kc) THEN "notfound"
    ELSE IF kc.TTL = 0 THEN "expired"
    ELSE IF kc.TTL > 0 /\ st[FK(c)].Timestamp < t - kc.TTL THEN "expired"
    ELSE LET r == Decode(GetBodyCodec(kc), GetBodyCompression(kc), st[FK(c)].Data)
         IN  IF r.ok THEN "hit" ELSE r.v

\* C34: the KeyConfig is resolved once at the start of a wrapped call and that
\* KeyConfig governs the call's probe, its fallback read and its Set:
\* replacing Config.Configs[key] while the call is in progress changes neither
\* the ttl, nor the codec, nor the compression tag the call uses.
C34_KeyConfigFixedPerCall ==
    [][\A p \in Callers :
          LET c == call[p]
              d == call'[p]
          IN  /\ (c.pc # "idle" /\ d.pc # "idle") => d.kc = c.kc
              /\ (c.pc = "probe" /\ d.pc \notin {"probe", "crashed"})
                 => d.probe = ProbeUnder(c, c.kc, store, now)
              /\ (c.pc = "fallback" /\ d.pc \notin {"fallback", "crashed"})
                 => /\ d.fallback = "hit" => DecodedEntry(c, store).ok
                    /\ d.fallback \in {"hit", "StorageErr"}
                       \/ ~DecodedEntry(c, store).ok
              /\ d.sets > c.sets
                 => /\ c.kc.TTL # 0
                    /\ store'[FK(c)].CompressionType = GetBodyCompression(c.kc)
                    /\ store'[FK(c)].Timestamp = now
                    /\ store'[FK(c)].Data
                           = Encode(GetBodyCodec(c.kc), GetBodyCompression(c.kc),
                                    c.result).v]_vars

\* a call stored under the KeyConfig it began with after the key got another
C34_Witness ==
    \E p \in Callers :
        /\ Done(p)
        /\ call[p].sets = 1
        /\ call[p].err = NoErr
        /\ config.Configs[call[p].key] # call[p].kc
        /\ GetBodyCompression(config.Configs[call[p].key])
               # GetBodyCompression(call[p].kc)
        /\ store[FK(call[p])].CompressionType = GetBodyCompression(call[p].kc)

\* a call read an entry as fresh under its own ttl after the key got ttl 0
C34_WitnessTTL ==
    \E p \in Callers :
        /\ Done(p)
        /\ call[p].probe = "hit"
        /\ call[p].kc.TTL = 1
        /\ config.Configs[call[p].key].TTL = 0

----------------------------------------------------------------------------
(* Properties of DiskStorage *)

\* the (key, params) pairs that have a file
DiskPairs(fs) == {<<path.dir, path.file>> : path \in DOMAIN fs}

\* C35: with DiskStorage the (key, params) pair identifies at most one entry:
\* after a Set for (key, params) under one compression and a Set for the same
\* pair under another compression, EntryCount reports one entry for the pair
\* and the earlier bytes are no longer stored.
C35_DiskPairUnique ==
    backend = "disk"
    => /\ \A path1, path2 \in DOMAIN store :
              (path1.dir = path2.dir /\ path1.file = path2.file) => path1 = path2
       /\ io.op = "EntryCount" => io.out = Cardinality(DiskPairs(store))

----------------------------------------------------------------------------
(* Properties of CacheFunk.Cleanup and CacheFunk.ExpiredEntryCount *)

\* the entries wrapped calls for key have written
EntriesOfKey(st, key) ==
    {fk \in DOMAIN st : \E params \in {"p1"}, kc \in {CfgPlain, CfgTwoSeconds} :
        LET paramStr == ParamMarshal(GetParamCodec(kc), params)
        IN  paramStr.ok /\ fk = FullKey(key, paramStr.v)}

\* the entries of the keys that Config.Configs does not list
Unlisted(st) ==
    UNION {EntriesOfKey(st, key) : key \in SweepKeys \ DOMAIN config.Configs}

\* C36: CacheFunk.Cleanup and CacheFunk.ExpiredEntryCount visit only the keys
\* listed in Config.Configs: entries written under a key that resolves through
\* Config.Defaults or the built-in default are never deleted by Cleanup and
\* never counted as expired, however old their timestamp is.
C36_UnlistedKeysUntouched ==
    /\ io.op = "Cleanup" => Unlisted(io.before) \subseteq DOMAIN store
    /\ (io.op = "ExpiredEntryCount" /\ io.before = [fk \in Unlisted(io.before) |-> io.before[fk]])
       => io.out = 0

\* C37: Cleanup removes exactly what ExpiredEntryCount counts: for every store
\* and config, with now unchanged, after CacheFunk.Cleanup the value of
\* ExpiredEntryCount is 0 and EntryCount has decreased by exactly the value
\* ExpiredEntryCount had before the Cleanup.
C37_CleanupMatchesCount ==
    [][(io' # io /\ io'.op = "Cleanup")
       => /\ CacheFunkExpiredEntryCount(store', config, now) = 0
          /\ StorageEntryCount(store') = io'.entries - io'.expired]_vars

----------------------------------------------------------------------------
(* Properties of the range of GetExpireTime *)

\* C38: for every ttl and every now between MinDate and MaxDate, GetExpireTime
\* returns a time within MinDate .. MaxDate and the conversion of ttl seconds
\* to a Duration never overflows: any ttl > 0 that is at least the number of
\* seconds elapsed since MinDate yields MinDate, also a ttl just below the
\* largest Duration.
C38_ExpireTimeInRange ==
    (io.op = "GetExpireTime" /\ io.t >= MinDate /\ io.t <= MaxDate)
    => LET ttl == io.kc.TTL IN
       /\ io.out >= MinDate /\ io.out <= MaxDate
       /\ (ttl > 0 /\ ttl >= io.t - MinDate) => io.out = MinDate
       /\ io.out \notin {MinDate, MaxDate}
          => /\ ttl > 0 /\ ttl <= MaxDurationSec
             /\ io.out = io.t - ttl

\* the ttl of the test's huge case, just below the largest Duration
C38_Witness ==
    /\ io.op = "GetExpireTime"
    /\ io.kc.TTL = MaxDurationSec - 3
    /\ io.t = NowStart
    /\ io.out = MinDate

\* a cutoff computed near both ends: late now, large ttl
C38_WitnessLate ==
    /\ io.op = "GetExpireTime"
    /\ io.kc.TTL = MaxDurationSec - 1
    /\ io.t = MaxDate
    /\ io.out = MaxDate - (MaxDurationSec - 1)

\* C39: when InMemoryStorage.Cleanup runs concurrently with Sets, Cleanup never
\* deletes an entry whose timestamp is at or after the cutoff at the moment of
\* the deletion: an entry that a concurrent Set refreshed after Cleanup had
\* selected it as expired is not lost.
C39_CleanupKeepsRefreshed ==
    [][\A fullkey \in (DOMAIN store) \ (DOMAIN store') :
          io.op = "Cleanup" => io.expireTime > store[fullkey].Timestamp]_vars

----------------------------------------------------------------------------
(* Properties of the values wrapped calls return *)

\* C40: after any sequence of wrapped calls, Cleanup and Clear, with codec and
\* compression held fixed, every value returned with a nil error is either the
\* value returned by the call's own resolver invocation or the value most
\* recently stored for the same key and the same rendered params by an earlier
\* successful resolver invocation.
C40_ReturnedValuesAreResolved ==
    \A p \in Callers :
        (Done(p) /\ call[p].err = NoErr)
        => LET c == call[p]
           IN  IF c.resolverCalls = 1 /\ ~c.resolved.err
               THEN c.result = c.resolved.val
               ELSE /\ FK(c) \in DOMAIN written
                    /\ c.result = written[FK(c)].val

====
